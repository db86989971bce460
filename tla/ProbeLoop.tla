----------------------------- MODULE ProbeLoop -----------------------------
(***************************************************************************)
(* The verdict of one test: the loop of Run over the endpoints,            *)
(* internal/sandbox/runner.go, and what TestNode takes for a success.      *)
(*                                                                         *)
(* An answer is whether there was one, its status, whether its body could  *)
(* be decoded, and the country in it ("" if none).  All answers are        *)
(* decoded into one struct, in which a body that breaks off, or that has   *)
(* no country, leaves the country that is there already.                   *)
(***************************************************************************)
EXTENDS Sequences, SequencesExt

Answer == [came : BOOLEAN, ok : BOOLEAN, decodes : BOOLEAN, country : {"", "ID", "SG"}]

\* What the decoder leaves in the struct of the loop.
Decoded(geo, answer) == IF answer.country = "" THEN geo ELSE answer.country

\* Bug: the body decides, whatever the status.
AnyBody(answer) == answer.came

\* The answers whose body is read.
Readable(answer) == answer.came /\ answer.ok

\* The loop breaks at its first success.
Try(run, answer) ==
  IF run.success \/ ~Readable(answer) THEN run
  ELSE LET geo == Decoded(run.geo, answer)
       IN  [geo |-> geo, success |-> answer.decodes /\ geo # ""]

Run(answers) == FoldLeft(Try, [geo |-> "", success |-> FALSE], answers)

-----------------------------------------------------------------------------

Whole(answer) == answer.came /\ answer.ok /\ answer.decodes
Named(answer) == answer.came /\ answer.ok /\ answer.country # ""
Good(answer)  == Whole(answer) /\ Named(answer)

\* A mode is verified exactly if some endpoint answered 200 with a whole body and
\* a country had come in, under a 200, by then: from that endpoint or left from one
\* before it whose body broke off.  The country the node is sold under is one that
\* came in so.  With the one endpoint that LoadConfig sets, verdict and country
\* are that endpoint's own.
ProbeVerdictOf(answers) ==
  LET run == Run(answers)
  IN  /\ run.success <=>
           \E a \in DOMAIN answers :
             Whole(answers[a]) /\ \E b \in 1..a : Named(answers[b])
      /\ run.success =>
           \E a \in DOMAIN answers :
             /\ Whole(answers[a])
             /\ \E b \in 1..a : Named(answers[b]) /\ answers[b].country = run.geo
      /\ Len(answers) = 1 =>
           /\ run.success <=> Good(answers[1])
           /\ run.success => run.geo = answers[1].country
=============================================================================

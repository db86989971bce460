------------------------------ MODULE Accounts ------------------------------
(***************************************************************************)
(* From a verified node to the rows it is sold as: EnrichNode and          *)
(* FormatRemark of internal/sandbox/enricher.go, the loop of Execute that  *)
(* clones a result once per mode, and ExpandNodesByMode of                 *)
(* internal/storage/database.go, which could do the same.                  *)
(*                                                                         *)
(* A remark is the sequence of its words and a word a sequence, so that    *)
(* "CDN,SNI" is <<"cdn", "sni">>; a flag and what SanitizeOrg and the      *)
(* fields of the node contribute are words in front of or behind the mode. *)
(***************************************************************************)
EXTENDS Integers, Sequences, FiniteSetsExt, SequencesExt

Mode == {"cdn", "sni", "direct"}

FormatRemark(index, node, connMode) ==
  << <<index>> >> \o node.org \o (IF connMode = <<>> THEN <<>> ELSE <<connMode>>)
    \o (IF node.tls THEN << <<"tls">> >> ELSE <<>>)

\* What TestNode makes of a node that passed in these modes.
EnrichNode(index, node, passed) ==
  [node EXCEPT !.connMode = passed, !.remark = FormatRemark(index, node, passed)]

\* Bug: the clones keep what EnrichNode wrote for all modes.
CloneAsIs(node, index, mode) == node

\* The account of one mode.
Clone(node, index, mode) ==
  [node EXCEPT !.connMode = <<mode>>, !.remark = FormatRemark(index, node, <<mode>>)]

\* activeNodes, as far as the limit lets them come.
ActiveNodes(results, limit) ==
  LET pairs == FlattenSeq([r \in DOMAIN results |->
                 [m \in DOMAIN results[r].connMode |-> <<r, results[r].connMode[m]>>]])
      all   == [k \in DOMAIN pairs |-> Clone(results[pairs[k][1]], k, pairs[k][2])]
  IN  SubSeq(all, 1, Min({Len(all), Max({1, limit})}))

\* strings.Replace with a count of one, over words.
ReplaceWord(words, old, new) ==
  LET found == {i \in DOMAIN words : words[i] = old}
  IN  IF found = {} THEN words ELSE [words EXCEPT ![Min(found)] = new]

\* The remark of the row of one mode: the combined modes are replaced, or else
\* the first of the other modes that stands between two words.
SplitRemark(node, mode) ==
  LET between(m) == \E i \in 2..(Len(node.remark) - 1) : node.remark[i] = <<m>>
      others     == {i \in DOMAIN node.connMode :
                       node.connMode[i] # mode /\ between(node.connMode[i])}
  IN  IF Contains(node.remark, node.connMode)
        THEN ReplaceWord(node.remark, node.connMode, <<mode>>)
      ELSE IF others # {}
        THEN ReplaceWord(node.remark, <<node.connMode[Min(others)]>>, <<mode>>)
      ELSE node.remark

\* The rows of one node; a node of at most one mode stays as it is.
RowsOf(node) ==
  IF Len(node.connMode) <= 1 THEN <<node>>
  ELSE [m \in DOMAIN node.connMode |->
          [node EXCEPT !.connMode = <<node.connMode[m]>>,
                       !.remark = SplitRemark(node, node.connMode[m])]]

ExpandNodesByMode(nodes) == FlattenSeq([k \in DOMAIN nodes |-> RowsOf(nodes[k])])

-----------------------------------------------------------------------------

\* Behind the organisation a remark has the mode, and whether there is TLS.
NamesMode(node) ==
  SubSeq(node.remark, Len(node.org) + 2, Len(node.remark))
    \in {<<node.connMode>>, <<node.connMode, <<"tls">> >>}

SameButIndex(a, b) ==
  [a EXCEPT !.remark = Tail(@)] = [b EXCEPT !.remark = Tail(@)]

\* What is sold as one account is one node in one mode, its remark names that
\* mode and no other, and the accounts are numbered without gaps.  The table
\* gets exactly these: splitting them once more changes nothing.  And the two
\* ways to split agree: the rows of the database for a node with all of its
\* modes are the accounts of the pipeline for it, apart from the number.
AccountPerModeOf(results, limit) ==
  LET active == ActiveNodes(results, limit)
      rows   == ExpandNodesByMode(results)
  IN  /\ \A k \in DOMAIN active :
           /\ \E m \in Mode : active[k].connMode = <<m>>
           /\ NamesMode(active[k])
           /\ active[k].remark[1] = <<k>>
      /\ ExpandNodesByMode(active) = active
      /\ \A k \in DOMAIN active : SameButIndex(active[k], rows[k])
=============================================================================

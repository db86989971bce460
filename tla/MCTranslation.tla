--------------------------- MODULE MCTranslation ---------------------------
(***************************************************************************)
(* The translations without a state of their own, each over every input of *)
(* a small sort: bodies to links, nodes to configurations, results to      *)
(* accounts, settings to sizes and answers to verdicts; beside them the    *)
(* loop of DeduplicateNodes over the spellings of one proxy that its key   *)
(* and the hash may or may not tell apart.                                 *)
(***************************************************************************)
EXTENDS NodeIdentity, SubscriptionDecoder, OutboundConfig, Accounts, Settings, ProbeLoop

As(word, upper, padded) == [word |-> word, upper |-> upper, padded |-> padded]
Plain(word) == As(word, FALSE, FALSE)

Spellings ==
  {[server |-> As("host", up, pad), password |-> pw, port |-> 443,
    method |-> Plain(m)] :
     up \in BOOLEAN, pad \in BOOLEAN,
     pw \in {Plain("key"), As("key", TRUE, FALSE), As("key", FALSE, TRUE)},
     m \in {"aes", "gcm"}}

SeqsUpTo(S, n) == UNION {[1..k -> S] : k \in 0..n}

\* Two lines, of which only the first has the rarer pieces.
FirstLines == SeqsUpTo({"vme", "ss", "tro", "q", "#"}, 2)
SecondLines == SeqsUpTo({"vle", "ss", "x", "blank"}, 3)
TwoLined(a, s, b) == a \o <<s>> \o b
TwoLines ==
  {TwoLined(a, s, b) : a \in FirstLines, s \in ConfigSeparators, b \in SecondLines}

Texts == SeqsUpTo(Piece, 4) \union TwoLines
CodedTexts == SeqsUpTo({"vme", "ss", "nl"}, 2)

Results ==
  {[org |-> o, tls |-> t, connMode |-> <<>>, remark |-> <<>>] :
     o \in {<<>>, << <<"org">> >>, << <<"cdn">>, <<"org">> >>}, t \in BOOLEAN}
Verified ==
  {EnrichNode(i, r, m) : i \in {7}, r \in Results,
     m \in {<<"cdn">>, <<"cdn", "sni">>, <<"sni", "direct">>, <<"cdn", "sni", "direct">>}}

Values == {-1, 0, 1, 2, 50, 600}
Variables == [Numbers -> {NotANumber} \union {Number(n) : n \in Values}]
Flags ==
  [Numbers -> {NotANumber, Number(-1), Number(3)}]

VARIABLE input

Inputs ==
  [of : {"body"}, body : {PlainBody(t) : t \in Texts}
                           \union UNION {CodedBodies(t) : t \in CodedTexts}]
    \union [of : {"node"}, node : TestedNode]
    \union [of : {"results"}, results : SeqsUpTo(Verified, 2), limit : 0..3]
    \union [of : {"settings"}, env : Variables, flags : Flags, total : {1, 2, 4}]
    \union [of : {"answers"}, answers : SeqsUpTo(Answer, 2)]

MCInit ==
  \/ Init /\ input = [of |-> "nodes"]
  \/ /\ input \in Inputs
     /\ nodes = <<>> /\ at = 1 /\ seen = {} /\ unique = <<>>

MCNext == Next /\ UNCHANGED input

MCSpec == MCInit /\ [][MCNext]_<<vars, input>>

-----------------------------------------------------------------------------

\* Every link that a line of a feed has to itself comes through whole and in its
\* place, whatever is around it and however it is coded (ExtractProxyURLs).
LinksComeThrough == input.of = "body" => LinksComeThroughOf(input.body)

\* What a mode verifies is the node itself: the CDN mode shows the node's own
\* names, the SNI mode reaches the node's own address (BuildSingboxConfig).
ModesKeepTheNode == input.of = "node" => ModesKeepNode(input.node)

\* An account is one node in one mode, it says so, and the table gets exactly
\* the accounts of the pipeline (Execute, ExpandNodesByMode).
AccountPerMode ==
  input.of = "results" => AccountPerModeOf(input.results, input.limit)

\* Whatever is set, no pool is without a slot, testing does not stop short of what
\* is collected, and no probe is cut off by its client before its context
\* (LoadConfig, NewTester, NewRunner, TestAll, Execute).
SettingsFit ==
  input.of = "settings" => SettingsFitFor(input.env, input.flags, input.total)

\* A mode is verified exactly if a whole answer came when a country was known, be
\* it left from an endpoint before (Run).
ProbeVerdict == input.of = "answers" => ProbeVerdictOf(input.answers)
=============================================================================

--------------------------- MODULE OutboundConfig ---------------------------
(***************************************************************************)
(* Whom a node is tested through and what it shows on the way: the         *)
(* outbound of BuildSingboxConfig, internal/sandbox/config_builder.go.     *)
(*                                                                         *)
(* A node is the fields that decide these things; its name, port,          *)
(* credentials, cipher and plugin are copied or set to a default for all   *)
(* modes alike and left out.  "" is a field that the feed left empty and   *)
(* Absent a key that the code does not set.  VPN and Transport are as they *)
(* are without case and blanks.  The parser makes nodes of the accepted    *)
(* protocols only, so the branches for others are never taken.             *)
(***************************************************************************)

CONSTANTS
  Hosts,     \* names of servers, "" among them
  Absent,    \* what a key holds that is not in its map
  CDN_HOST,  \* the settings of these names; "" if the caller has none
  SNI_HOST

ASSUME HostAssumption ==
  Absent \notin Hosts \union {"", CDN_HOST, SNI_HOST, "104.18.2.2",
                              "meet.google.com", "ws", "grpc"}

TunnelVPN == {"vmess", "vless", "trojan"}  \* called with applyTLS, applyTransport

TestedNode ==
  [VPN : TunnelVPN \union {"shadowsocks"}, Transport : {"tcp", "ws", "grpc"},
   TLS : BOOLEAN, Server : Hosts \ {""}, Host : Hosts, SNI : Hosts]

Default(value, fallback) == IF value = "" THEN fallback ELSE value

CDNHost == Default(CDN_HOST, "104.18.2.2")
SNIHost == Default(SNI_HOST, "meet.google.com")

\* The server_name of the key "tls".
applyTLS(node) ==
  IF node.VPN \in TunnelVPN /\ node.TLS
    THEN Default(node.SNI, Default(node.Host, node.Server)) ELSE Absent

\* The type of the key "transport".
TransportType(node) ==
  IF node.VPN \in TunnelVPN /\ node.Transport # "tcp" THEN node.Transport ELSE Absent

\* Its header Host, which only a websocket has.
applyTransport(node) ==
  IF TransportType(node) = "ws" THEN Default(node.Host, node.Server) ELSE Absent

nodeToOutboundMap(node) ==
  [server |-> node.Server, server_name |-> applyTLS(node),
   transport |-> TransportType(node), host |-> applyTransport(node)]

applyModeMutation(ob, node, mode) ==
  CASE mode = "cdn" -> [ob EXCEPT !.server = CDNHost]
    [] mode = "sni" ->
         [ob EXCEPT
            !.server_name = IF @ # Absent \/ node.TLS THEN SNIHost ELSE @,
            !.host = IF ob.transport = "ws" THEN SNIHost ELSE @]
    [] mode = "direct" -> ob

\* Bug: the node is sent to the front before its names are derived.
FrontedFirst(node, mode) ==
  IF mode = "cdn" THEN nodeToOutboundMap([node EXCEPT !.Server = CDNHost])
  ELSE applyModeMutation(nodeToOutboundMap(node), node, mode)

Outbound(node, mode) == applyModeMutation(nodeToOutboundMap(node), node, mode)

-----------------------------------------------------------------------------

\* The names that an observer, or a front, reads in the connection.
Shown(ob) == {ob.server_name, ob.host} \ {Absent}

\* What a mode says of a node is about that node: through the front it still
\* shows only its own names, and with the bug host it is still reached at its
\* own address and shows no other name.  A tunnel has a name to replace unless
\* it is neither TLS nor a websocket; then its test with the bug host is the
\* direct one a second time.  No name is ever shown empty.
ModesKeepNode(node) ==
  LET direct == Outbound(node, "direct")
      cdn    == Outbound(node, "cdn")
      sni    == Outbound(node, "sni")
  IN  /\ cdn.server = CDNHost
      /\ Shown(cdn) = Shown(direct)
      /\ Shown(cdn) \subseteq {node.Server, node.Host, node.SNI}
      /\ sni.server = node.Server
      /\ Shown(sni) \subseteq {SNIHost}
      /\ node.VPN \in TunnelVPN =>
           (Shown(sni) = {} <=> ~node.TLS /\ node.Transport # "ws")
      /\ Shown(sni) = {} => sni = direct
      /\ "" \notin Shown(direct) \union Shown(cdn) \union Shown(sni)
=============================================================================

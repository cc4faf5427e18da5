--------------------------- MODULE MCLobbyServer ---------------------------
(* Values for the constants of LobbyServer in the .cfg files beside it.    *)
EXTENDS LobbyServer

CONSTANTS c1, c2, c3, ip1, ip2, ip3

\* c1 and c2 are two clients with addresses of their own; c3 presents the address of
\* c1: the same client after a reconnect, or one whose volume serial getIP maps to it.
ClientIP == [c \in Conns |-> IF c = c2 THEN ip2 ELSE ip1]

\* No address is the front of another; or ip2, cut, is ip3.
NoCutIPs == [ip \in IPs |-> {}]
Ip2CutIsIp3 == [ip \in IPs |-> IF ip = ip2 THEN {ip3} ELSE {}]

\* Every message a single piece; or a join that TCP may cut.
OnePiece == [k \in Kinds |-> 1]
JoinInTwo == [k \in Kinds |-> IF k = "join" THEN 2 ELSE 1]

PairSay == [c \in Conns |-> IF c = c1 THEN Kinds ELSE {"join"}]
SharedSay == [c \in Conns |-> IF c = c1 THEN {"join", "frame", "leave"} ELSE {"join"}]
MemberSay == [c \in Conns |-> {"join", "leave"}]

TwoSends == [c \in Conns |-> 2]
TwoSendsOfC1 == [c \in Conns |-> IF c = c1 THEN 2 ELSE 1]

AnyEnding == [c \in Conns |-> {"shut", "reset"}]
MixedEndings == [c \in Conns |-> IF c = c1 THEN {"reset"} ELSE {"shut"}]
=============================================================================

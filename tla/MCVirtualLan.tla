--------------------------- MODULE MCVirtualLan ---------------------------
(* Instances of VirtualLan for TLC.                                        *)
EXTENDS VirtualLan

CONSTANTS client, other, peer

\* The address of the peer is the front of the client's.
FrontAddress == [h \in Hosts |-> CASE h = client -> <<"x", "y">>
                                   [] h = peer   -> <<"x">>
                                   [] OTHER      -> <<"z">>]

Quiet == [hosts |-> {client, peer}, dsts |-> {}, cuts |-> FALSE, choices |-> {},
          menu |-> 0, drops |-> 1, conns |-> 1, requests |-> 1, replies |-> 1]

\* Replies are cut and glued; requests are; a user chooses anything; both clients run; the
\* user joins, leaves and sends, faster than the answers come.
Stream == [Quiet EXCEPT !.dsts = {peer}, !.cuts = TRUE, !.drops = 0, !.replies = 7]
Pipes == [Quiet EXCEPT !.hosts = {client}, !.cuts = TRUE, !.choices = {"leave", "send"},
                       !.menu = 2, !.drops = 0, !.requests = 2, !.replies = 7]
Chooses == [Quiet EXCEPT !.hosts = {client}, !.choices = MenuItems, !.menu = 2,
                         !.conns = 2]
Both == [Quiet EXCEPT !.hosts = {client, other}, !.dsts = {client}]
Hurries == [Quiet EXCEPT !.hosts = {client}, !.choices = {"join", "leave", "send"}, !.menu = 4,
                         !.drops = 0, !.requests = 2, !.replies = 2]
AnyScenario == {Stream, Pipes, Chooses, Both, Hurries}

\* The menu's reconnect leaves join as it was.
Reconnects == {[Quiet EXCEPT !.dsts = {peer}, !.choices = {"reconnect"}, !.menu = 1,
                             !.conns = 2]}
=============================================================================

-------------------------------- MODULE Rpc --------------------------------
(***************************************************************************)
(* What a ROS service promises its clients, whatever carries the messages:  *)
(* a request is answered at most once, an answer reaches its client at most *)
(* once, only the answer to a client's latest request does, and a request   *)
(* or answer may be lost at any time but never comes back.                  *)
(***************************************************************************)
EXTENDS Integers

CONSTANTS
  Clients,  \* the clients of the service
  MaxSeq    \* bound on the requests one client issues

VARIABLE status  \* status[c][s]: where request s of client c is

Numbers == 0 .. (MaxSeq - 1)
InFlight == {"open", "answered"}
Statuses == {"unissued", "returned", "lost"} \cup InFlight

RpcTypeOK == status \in [Clients -> [Numbers -> Statuses]]

RpcInit == status = [c \in Clients |-> [s \in Numbers |-> "unissued"]]

\* Every request but those of `moved` stays where it is or is lost.
OthersStayOrAreLost(moved) ==
  \A c \in Clients, s \in Numbers :
    <<c, s>> \notin moved =>
      \/ status'[c][s] = status[c][s]
      \/ status[c][s] \in InFlight /\ status'[c][s] = "lost"

\* Numbers are issued in order; an issued request may be lost at once.
Issue(c, s) ==
  /\ status[c][s] = "unissued"
  /\ s > 0 => status[c][s - 1] # "unissued"
  /\ status'[c][s] \in {"open", "lost"}
  /\ OthersStayOrAreLost({<<c, s>>})

Answer(c, s) ==
  /\ status[c][s] = "open"
  /\ status'[c][s] = "answered"
  /\ OthersStayOrAreLost({<<c, s>>})

\* Only the answer to the client's latest request is returned.
Return(c, s) ==
  /\ status[c][s] = "answered"
  /\ s + 1 \in Numbers => status[c][s + 1] = "unissued"
  /\ status'[c][s] = "returned"
  /\ OthersStayOrAreLost({<<c, s>>})

Lose == OthersStayOrAreLost({})

RpcNext ==
  \/ \E c \in Clients, s \in Numbers : Issue(c, s) \/ Answer(c, s) \/ Return(c, s)
  \/ Lose

RpcSpec == RpcInit /\ [][RpcNext]_status
=============================================================================

----------------------------- MODULE NaiveProxy -----------------------------
(***************************************************************************)
(* NaiveProxy: it accepts sockets, makes a NaiveConnection of each, starts *)
(* it (Connect, then Run) and owns it until it is closed.  A connection is *)
(* known by a pointer to code on the call stack and by its number to the   *)
(* callbacks, which may come when it is gone; a closed connection is       *)
(* destroyed by a task of its own (DeleteSoon) because the code that       *)
(* reported its end is still running inside it.                            *)
(*                                                                         *)
(* What a connection does between two calls of its owner is left to        *)
(* NaiveConnection: here Connect and Run complete at once or later, and    *)
(* the run callback may come from within Run or from any later event.      *)
(***************************************************************************)
EXTENDS Integers, Sequences, FiniteSets, SequencesExt

CONSTANTS
  Conns,    \* connection objects: a bound on those that exist at a time
  IdSpace   \* values of last_id_, an unsigned int: 2^32 in the program

ASSUME IdSpaceAssumption == IdSpace \in Nat \ {0, 1}
ASSUME ConnsAssumption == IsFiniteSet(Conns)

OK == 0
ERR_FAILED == -2
Results == {OK, ERR_FAILED}

VARIABLES
  accepting,         \* the accept loop: "posted", "looping", "pending", "stopped"
  accepted_socket,   \* accepted_socket_ is set
  last_id,
  connection_by_id,  \* a function from the ids in use to Conns
  ids,               \* ids[c]: id() of connection c
  alive,             \* the objects made and not destroyed
  doomed,            \* the objects owned by a DeleteSoon task
  connect_callback,  \* the connections that will call OnConnectComplete
  run_callback,      \* the connections that may call OnRunComplete
  stack              \* the call stack, a sequence of frames

vars == <<accepting, accepted_socket, last_id, connection_by_id, ids, alive,
          doomed, connect_callback, run_callback, stack>>
acceptVars == <<accepting, accepted_socket, last_id, ids>>
ownerVars == <<connection_by_id, alive, doomed>>
callbackVars == <<connect_callback, run_callback>>

-----------------------------------------------------------------------------
\* The call stack.  c is the connection that a frame has a pointer to.

NoConn == "none"
ASSUME NoConnAssumption == NoConn \notin Conns

Frame(op, c, rv) == [op |-> op, c |-> c, rv |-> rv]
Call(op) == Frame(op, NoConn, OK)
Idle == stack = <<>>
Top == Last(stack)
Running(op) == stack # <<>> /\ Top.op = op
Return == stack' = Front(stack)
Becomes(frame) == stack' = Append(Front(stack), frame)

Init ==
  /\ accepting = "posted" /\ accepted_socket = FALSE
  /\ last_id = 0
  /\ connection_by_id = [i \in {} |-> NoConn]
  /\ ids = [c \in Conns |-> 0]
  /\ alive = {} /\ doomed = {}
  /\ connect_callback = {} /\ run_callback = {}
  /\ stack = <<>>

-----------------------------------------------------------------------------
\* Accepting.

\* The task posted by the constructor.
StartAccepting ==
  /\ Idle /\ accepting = "posted"
  /\ accepting' = "looping"
  /\ stack' = <<Call("DoAcceptLoop")>>
  /\ UNCHANGED <<accepted_socket, last_id, ids, ownerVars, callbackVars>>

\* The bound: a client is accepted only while there is an object for it.
RoomForOne == alive # Conns

\* HandleAcceptResult: the accepted socket becomes a connection; an error
\* ends the loop.
DoAcceptLoop ==
  /\ Running("DoAcceptLoop")
  /\ \/ /\ accepting' = "pending"
        /\ Return
        /\ UNCHANGED accepted_socket
     \/ /\ RoomForOne
        /\ accepted_socket' = TRUE
        /\ stack' = Append(stack, Call("DoConnect"))
        /\ UNCHANGED accepting
     \/ /\ accepting' = "stopped"
        /\ Return
        /\ UNCHANGED accepted_socket
  /\ UNCHANGED <<last_id, ids, ownerVars, callbackVars>>

OnAcceptComplete ==
  /\ Idle /\ accepting = "pending"
  /\ \/ /\ RoomForOne
        /\ accepted_socket' = TRUE
        /\ accepting' = "looping"
        /\ stack' = <<Call("DoAcceptLoop"), Call("DoConnect")>>
     \/ /\ accepting' = "stopped"
        /\ UNCHANGED <<accepted_socket, stack>>
  /\ UNCHANGED <<last_id, ids, ownerVars, callbackVars>>

-----------------------------------------------------------------------------
\* Connections.

\* FindConnection, as a set.
FindConnection(id) ==
  {connection_by_id[i] : i \in {id} \cap DOMAIN connection_by_id}

\* Mutants: the number of the last connection is used again; the number is
\* wider than the map's key.
NextIdAgain == IF last_id = 0 THEN 1 ELSE last_id

NextIdWide == last_id + 1

NextId == (last_id + 1) % IdSpace

\* A new connection takes over the accepted socket.  Should its number be in
\* use, the connection it belonged to is replaced in the map and destroyed.
DoConnect ==
  /\ Running("DoConnect") /\ accepted_socket
  /\ \E c \in Conns \ alive :
       LET id == NextId
           replaced == FindConnection(id)
       IN /\ last_id' = id
          /\ ids' = [ids EXCEPT ![c] = id]
          /\ accepted_socket' = FALSE
          /\ connection_by_id' =
               [i \in DOMAIN connection_by_id \cup {id} |->
                  IF i = id THEN c ELSE connection_by_id[i]]
          /\ alive' = (alive \ replaced) \cup {c}
          /\ connect_callback' = connect_callback \ replaced
          /\ run_callback' = run_callback \ replaced
          /\ Becomes(Frame("Connect", c, OK))
  /\ UNCHANGED <<accepting, doomed>>

\* NaiveConnection::Connect, called by DoConnect: its callback is set only
\* when it returns ERR_IO_PENDING.
Connect ==
  /\ Running("Connect")
  /\ \/ /\ connect_callback' = connect_callback \cup {Top.c}
        /\ Return
     \/ /\ \E rv \in Results : Becomes(Frame("HandleConnectResult", Top.c, rv))
        /\ UNCHANGED connect_callback
  /\ UNCHANGED <<acceptVars, ownerVars, run_callback>>

\* A connection reports, from within its OnIOComplete, that it is connected.
OnConnectComplete(c) ==
  /\ Idle /\ c \in connect_callback
  /\ connect_callback' = connect_callback \ {c}
  /\ \E rv \in Results :
       stack' = <<Frame("Event", c, OK)>> \o
                  SetToSeq({Frame("HandleConnectResult", found, rv) :
                              found \in FindConnection(ids[c])})
  /\ UNCHANGED <<acceptVars, ownerVars, run_callback>>

\* Mutant: the connection is destroyed at once.
CloseNow(id) ==
  /\ alive' = alive \ FindConnection(id)
  /\ connection_by_id' = [i \in DOMAIN connection_by_id \ {id} |-> connection_by_id[i]]
  /\ UNCHANGED doomed

\* Mutant: the connection stays in the map.
CloseKeepsEntry(id) ==
  /\ doomed' = doomed \cup FindConnection(id)
  /\ UNCHANGED <<alive, connection_by_id>>

\* The connection, if it is there, goes to a DeleteSoon task.
Close(id) ==
  /\ doomed' = doomed \cup FindConnection(id)
  /\ connection_by_id' = [i \in DOMAIN connection_by_id \ {id} |-> connection_by_id[i]]
  /\ UNCHANGED alive

\* On success DoRun calls Run of the connection.
HandleConnectResult ==
  /\ Running("HandleConnectResult")
  /\ \/ /\ Top.rv # OK
        /\ Close(ids[Top.c])
        /\ Return
     \/ /\ Top.rv = OK
        /\ Becomes(Frame("Run", Top.c, OK))
        /\ UNCHANGED ownerVars
  /\ UNCHANGED <<acceptVars, callbackVars>>

\* NaiveConnection::Run: an error it already knows is returned and the owner
\* closes (HandleRunResult); otherwise it sets its callback and goes on.
Run ==
  /\ Running("Run")
  /\ \/ /\ Close(ids[Top.c])
        /\ Return
        /\ UNCHANGED run_callback
     \/ /\ run_callback' = run_callback \cup {Top.c}
        /\ Becomes(Frame("Event", Top.c, OK))
        /\ UNCHANGED ownerVars
  /\ UNCHANGED <<acceptVars, connect_callback>>

\* The message loop calls a connection: a socket operation completed, or a
\* posted Pull runs.
Event(c) ==
  /\ Idle /\ c \in alive
  /\ stack' = <<Frame("Event", c, OK)>>
  /\ UNCHANGED <<acceptVars, ownerVars, callbackVars>>

\* Mutant: the callback is not used up.
OnRunCompleteRepeats ==
  /\ Running("Event") /\ Top.c \in run_callback
  /\ Close(ids[Top.c])
  /\ UNCHANGED <<acceptVars, callbackVars, stack>>

\* The code of a connection calls its run callback, once.  OnRunComplete
\* closes, if it finds the connection, and returns into that code, which
\* still uses the connection.
OnRunComplete ==
  /\ Running("Event") /\ Top.c \in run_callback
  /\ run_callback' = run_callback \ {Top.c}
  /\ Close(ids[Top.c])
  /\ UNCHANGED <<acceptVars, connect_callback, stack>>

EventReturns ==
  /\ Running("Event")
  /\ Return
  /\ UNCHANGED <<acceptVars, ownerVars, callbackVars>>

\* The task posted by DeleteSoon.
Delete(c) ==
  /\ Idle /\ c \in doomed
  /\ doomed' = doomed \ {c}
  /\ alive' = alive \ {c}
  /\ connect_callback' = connect_callback \ {c}
  /\ run_callback' = run_callback \ {c}
  /\ UNCHANGED <<acceptVars, connection_by_id, stack>>

Next ==
  \/ StartAccepting \/ DoAcceptLoop \/ OnAcceptComplete
  \/ DoConnect \/ Connect \/ HandleConnectResult \/ Run
  \/ OnRunComplete \/ EventReturns
  \/ \E c \in Conns : OnConnectComplete(c) \/ Event(c) \/ Delete(c)

Spec == Init /\ [][Next]_vars

-----------------------------------------------------------------------------
\* Properties.

Ops == {"DoAcceptLoop", "DoConnect", "Connect", "HandleConnectResult", "Run", "Event"}

TypeOK ==
  /\ accepting \in {"posted", "looping", "pending", "stopped"}
  /\ accepted_socket \in BOOLEAN
  /\ last_id \in 0..(IdSpace - 1)
  /\ DOMAIN connection_by_id \subseteq 0..(IdSpace - 1)
  /\ \A i \in DOMAIN connection_by_id : connection_by_id[i] \in Conns
  /\ ids \in [Conns -> 0..(IdSpace - 1)]
  /\ alive \subseteq Conns /\ doomed \subseteq Conns
  /\ connect_callback \subseteq Conns /\ run_callback \subseteq Conns
  /\ stack \in Seq([op : Ops, c : Conns \cup {NoConn}, rv : Results])

\* The connections in the map.
Mapped == {connection_by_id[i] : i \in DOMAIN connection_by_id}

(***************************************************************************)
(* No function on the call stack holds a pointer to a destroyed            *)
(* connection: Close from within a connection's own code, in Run, in an    *)
(* event or after a failed Connect, is safe.                               *)
(***************************************************************************)
NoUseAfterFree ==
  \A k \in DOMAIN stack : stack[k].c # NoConn => stack[k].c \in alive

(***************************************************************************)
(* A connection has one owner: the map, under its own number, or a         *)
(* DeleteSoon task.  None is leaked, destroyed twice or closed twice.      *)
(***************************************************************************)
OneOwner ==
  /\ alive = Mapped \cup doomed /\ Mapped \cap doomed = {}
  /\ \A i \in DOMAIN connection_by_id : ids[connection_by_id[i]] = i

(***************************************************************************)
(* A callback that is still to come finds the connection that makes it,    *)
(* by its number, although numbers are used again once last_id_ wraps: no  *)
(* late callback closes or runs a connection of the same number.           *)
(***************************************************************************)
CallbackFindsCaller ==
  \A c \in connect_callback \cup run_callback : FindConnection(ids[c]) = {c}

(***************************************************************************)
(* A connection is destroyed only after Close, by its task, except when    *)
(* last_id_ has gone once round to its number.                             *)
(***************************************************************************)
DestroyedAfterClose ==
  [][\A c \in alive \ alive' :
       c \in doomed \/ (last_id' = ids[c] /\ last_id' # last_id)]_vars
=============================================================================

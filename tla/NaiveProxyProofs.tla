-------------------------- MODULE NaiveProxyProofs --------------------------
(***************************************************************************)
(* Proofs that NaiveProxy owns its connections safely, for any number of   *)
(* connections and of values of last_id_.                                  *)
(***************************************************************************)
EXTENDS NaiveProxy, FiniteSetTheorems, SequenceTheorems, TLAPS

Callbacks == connect_callback \cup run_callback

\* A function that has a pointer to c: code of the connection may find it
\* closed, but on the way from Connect to Run it is in the map and will not
\* call back.
Holds(frame, c) ==
  /\ c \in alive
  /\ \/ frame = Frame("Event", c, OK)
     \/ /\ \E op \in {"Connect", "HandleConnectResult", "Run"}, rv \in Results :
             frame = Frame(op, c, rv)
        /\ c \in Mapped /\ c \notin Callbacks

\* What the message loop calls: the accept loop or a connection.
Bottom(frame) ==
  frame = Call("DoAcceptLoop") \/ \E c \in Conns : c \in alive /\ frame = Frame("Event", c, OK)

StackInv ==
  \/ stack = <<>>
  \/ \E b : Bottom(b) /\ stack = <<b>>
  \/ stack = <<Call("DoAcceptLoop"), Call("DoConnect")>>
  \/ \E b, f : Bottom(b) /\ (\E c \in Conns : Holds(f, c)) /\ stack = <<b, f>>

\* Those that will call back are in the map, and set one callback at a time.
CallbackInv ==
  /\ \A c \in Callbacks : c \in Mapped
  /\ connect_callback \cap run_callback = {}

Inv == TypeOK /\ OneOwner /\ CallbackInv /\ StackInv

-----------------------------------------------------------------------------
\* The call stack has at most two frames.

LEMMA OneFrame ==
  ASSUME NEW S, NEW s \in Seq(S), Len(s) = 1
  PROVE  s = <<s[1]>>
<1> DEFINE a == s[1]
<1>1. <<a>> \in Seq({a} \cup S) /\ Len(<<a>>) = 1 /\ <<a>>[1] = a
  OBVIOUS
<1>2. s \in Seq({a} \cup S)
  BY SeqMonotonic
<1>3. \A i \in 1 .. Len(s) : s[i] = <<a>>[i]
  BY <1>1
<1> QED BY <1>1, <1>2, <1>3, SeqEqual, Zenon

LEMMA TwoFrames ==
  ASSUME NEW S, NEW s \in Seq(S), Len(s) = 2
  PROVE  s = <<s[1], s[2]>>
<1> DEFINE a == s[1]  b == s[2]
<1>1. <<a, b>> \in Seq({a, b} \cup S) /\ Len(<<a, b>>) = 2 /\ <<a, b>>[1] = a /\ <<a, b>>[2] = b
  OBVIOUS
<1>2. s \in Seq({a, b} \cup S)
  BY SeqMonotonic
<1>3. \A i \in 1 .. Len(s) : s[i] = <<a, b>>[i]
  BY <1>1
<1> QED BY <1>1, <1>2, <1>3, SeqEqual, Zenon

LEMMA TopOfOne ==
  ASSUME NEW a
  PROVE  Last(<<a>>) = a /\ Front(<<a>>) = <<>> /\ <<a>> # <<>>
<1>1. Len(<<a>>) = 1 /\ <<a>>[1] = a
  OBVIOUS
<1>2. SubSeq(<<a>>, 1, 0) = <<>>
  BY SubSeqEmpty
<1> QED BY <1>1, <1>2 DEF Last, Front

LEMMA TopOfTwo ==
  ASSUME NEW a, NEW b
  PROVE  Last(<<a, b>>) = b /\ Front(<<a, b>>) = <<a>> /\ <<a, b>> # <<>>
<1>1. Len(<<a, b>>) = 2 /\ <<a, b>>[1] = a /\ <<a, b>>[2] = b
  OBVIOUS
<1>3. /\ SubSeq(<<a, b>>, 1, 1) \in Seq({a, b})
      /\ Len(SubSeq(<<a, b>>, 1, 1)) = 1
      /\ SubSeq(<<a, b>>, 1, 1)[1] = a
  <2>1. \A i \in 1 .. 1 : <<a, b>>[i] \in {a, b}
    BY <1>1
  <2> QED BY <1>1, <2>1, SubSeqProperties
<1>4. SubSeq(<<a, b>>, 1, 1) = <<a>>
  BY <1>3, OneFrame, Zenon
<1> QED BY <1>1, <1>4 DEF Last, Front

LEMMA Pushed == ASSUME NEW a, NEW b PROVE Append(<<a>>, b) = <<a, b>> /\ Append(<<>>, b) = <<b>>
<1>1. Append(<<a>>, b) \in Seq({a, b}) /\ Len(Append(<<a>>, b)) = 2 /\ Append(<<a>>, b)[1] = a /\ Append(<<a>>, b)[2] = b
  OBVIOUS
<1>2. Append(<<>>, b) \in Seq({b}) /\ Len(Append(<<>>, b)) = 1 /\ Append(<<>>, b)[1] = b
  OBVIOUS
<1> QED BY <1>1, <1>2, OneFrame, TwoFrames, Zenon

LEMMA Bare == ASSUME NEW a, NEW b PROVE <<a>> \o <<b>> = <<a, b>>
<1>1. <<a>> \o <<b>> \in Seq({a, b}) /\ Len(<<a>> \o <<b>>) = 2 /\ (<<a>> \o <<b>>)[1] = a /\ (<<a>> \o <<b>>)[2] = b
  OBVIOUS
<1> QED BY <1>1, TwoFrames, Zenon

LEMMA Sole == ASSUME NEW a PROVE SetToSeq({a}) = <<a>>
<1>1. Cardinality({a}) = 1
  BY FS_Singleton
<1>2. [i \in 1..1 |-> a] \in [1..Cardinality({a}) -> {a}] /\ IsInjective([i \in 1..1 |-> a])
  BY <1>1 DEF IsInjective
<1> DEFINE s == SetToSeq({a})
<1>3. s \in [1..1 -> {a}]
  BY <1>1, <1>2 DEF SetToSeq
<1> HIDE DEF s
<1>4. s \in Seq({a})
  BY <1>3, SeqDef
<1>5. Len(s) = 1
  BY <1>3, <1>4, LenProperties
<1>6. s[1] = a
  BY <1>3
<1> QED BY <1>4, <1>5, <1>6, OneFrame, Zenon DEF s

LEMMA TopFrame ==
  ASSUME StackInv, stack # <<>>
  PROVE  \/ Front(stack) = <<>> /\ Bottom(Top)
         \/ \E b : /\ Front(stack) = <<b>> /\ Bottom(b)
                   /\ \/ b = Call("DoAcceptLoop") /\ Top = Call("DoConnect")
                      \/ \E c \in Conns : Holds(Top, c)
<1>1. CASE \E b : Bottom(b) /\ stack = <<b>>
  BY <1>1, TopOfOne, Zenon DEF Top
<1>2. CASE stack = <<Call("DoAcceptLoop"), Call("DoConnect")>>
  BY <1>2, TopOfTwo, Zenon DEF Top, Bottom
<1>3. CASE \E b, f : Bottom(b) /\ (\E c \in Conns : Holds(f, c)) /\ stack = <<b, f>>
  BY <1>3, TopOfTwo, Zenon DEF Top
<1> QED BY <1>1, <1>2, <1>3 DEF StackInv

LEMMA InAcceptLoop ==
  ASSUME StackInv, Running("DoAcceptLoop")
  PROVE  Front(stack) = <<>> /\ stack = <<Call("DoAcceptLoop")>>
<1>1. CASE \E b : Bottom(b) /\ stack = <<b>>
  BY <1>1, TopOfOne DEF Running, Top, Bottom, Call, Frame
<1>2. CASE stack = <<Call("DoAcceptLoop"), Call("DoConnect")>>
  BY <1>2, TopOfTwo DEF Running, Top, Call, Frame
<1>3. CASE \E b, f : Bottom(b) /\ (\E c \in Conns : Holds(f, c)) /\ stack = <<b, f>>
  BY <1>3, TopOfTwo DEF Running, Top, Holds, Frame
<1> QED BY <1>1, <1>2, <1>3 DEF StackInv, Running

LEMMA InDoConnect ==
  ASSUME StackInv, Running("DoConnect")
  PROVE  Front(stack) = <<Call("DoAcceptLoop")>>
BY TopFrame DEF Running, Bottom, Holds, Call, Frame

LEMMA InStart ==
  ASSUME StackInv, NEW op \in {"Connect", "HandleConnectResult", "Run"}, Running(op)
  PROVE  /\ \E b : Bottom(b) /\ Front(stack) = <<b>>
         /\ Top.c \in Conns /\ Top.c \in alive /\ Top.c \in Mapped /\ Top.c \notin Callbacks
BY TopFrame DEF Running, Bottom, Holds, Call, Frame

LEMMA InEvent ==
  ASSUME StackInv, Running("Event")
  PROVE  /\ Front(stack) = <<>> \/ \E b : Bottom(b) /\ Front(stack) = <<b>>
         /\ Top.c \in Conns /\ Top.c \in alive
BY TopFrame DEF Running, Bottom, Holds, Call, Frame

-----------------------------------------------------------------------------
\* The map.

LEMMA FindsMapped ==
  ASSUME OneOwner, NEW c \in Mapped
  PROVE  FindConnection(ids[c]) = {c}
BY DEF OneOwner, Mapped, FindConnection

MapType ==
  /\ DOMAIN connection_by_id \subseteq 0..(IdSpace - 1)
  /\ \A i \in DOMAIN connection_by_id : connection_by_id[i] \in Conns

LEMMA CloseKeeps ==
  ASSUME MapType, OneOwner, NEW c \in Mapped, Close(ids[c]), ids' = ids
  PROVE  MapType' /\ OneOwner' /\ Mapped' = Mapped \ {c} /\ doomed' = doomed \cup {c}
<1>1. doomed' = doomed \cup {c} /\ alive' = alive
  BY FindsMapped DEF Close
<1>2. /\ DOMAIN connection_by_id' = DOMAIN connection_by_id \ {ids[c]}
      /\ \A i \in DOMAIN connection_by_id' : connection_by_id'[i] = connection_by_id[i]
  BY DEF Close
<1>3. connection_by_id[ids[c]] = c /\ ids[c] \in DOMAIN connection_by_id
  BY DEF OneOwner, Mapped
<1>4. Mapped' = Mapped \ {c}
  BY <1>2, <1>3 DEF Mapped, OneOwner
<1>5. OneOwner'
  BY <1>1, <1>2, <1>3, <1>4 DEF OneOwner, Mapped
<1>6. MapType'
  BY <1>2 DEF MapType
<1> QED BY <1>1, <1>4, <1>5, <1>6

-----------------------------------------------------------------------------
\* The invariant.

Frames == [op : Ops, c : Conns \cup {NoConn}, rv : Results]

LEMMA FrameTypes ==
  /\ \A op \in Ops : Call(op) \in Frames
  /\ \A op \in Ops, c \in Conns, rv \in Results : Frame(op, c, rv) \in Frames
BY DEF Frames, Call, Frame, Results

LEMMA SeqTypes ==
  /\ <<>> \in Seq(Frames)
  /\ \A a \in Frames : <<a>> \in Seq(Frames)
  /\ \A a, b \in Frames : <<a, b>> \in Seq(Frames)
OBVIOUS

\* What the stack may be is what its frames may be.
LEMMA StackType ==
  ASSUME StackInv
  PROVE  stack \in Seq(Frames)
<1>1. \A b : Bottom(b) => b \in Frames
  BY FrameTypes DEF Bottom, Ops, Results, OK
<1>2. \A f, c : c \in Conns /\ Holds(f, c) => f \in Frames
  BY FrameTypes DEF Holds, Ops, Results, OK
<1>3. Call("DoAcceptLoop") \in Frames /\ Call("DoConnect") \in Frames
  BY FrameTypes DEF Ops
<1> QED BY <1>1, <1>2, <1>3, SeqTypes, Zenon DEF StackInv

LEMMA InitInv == Init => Inv
<1> SUFFICES ASSUME Init PROVE Inv
  OBVIOUS
<1>1. Mapped = {}
  BY DEF Init, Mapped
<1>2. StackInv
  BY DEF Init, StackInv
<1>3. stack \in Seq(Frames)
  BY <1>2, StackType
<1>4. TypeOK
  <2>1. 0 \in 0..(IdSpace - 1)
    BY IdSpaceAssumption
  <2>2. DOMAIN connection_by_id = {}
    BY DEF Init
  <2>3. accepted_socket \in BOOLEAN
    BY DEF Init
  <2> QED BY <1>3, <2>1, <2>2, <2>3 DEF Init, TypeOK, Frames
<1>5. OneOwner /\ CallbackInv
  BY <1>1 DEF Init, OneOwner, CallbackInv, Callbacks
<1> QED BY <1>2, <1>4, <1>5 DEF Inv

LEMMA StartAcceptingKeeps == Inv /\ StartAccepting => Inv'
<1> SUFFICES ASSUME Inv, StartAccepting PROVE Inv'
  OBVIOUS
<1> USE DEF Inv, StartAccepting, ownerVars, callbackVars
<1>1. StackInv'
  BY DEF StackInv, Bottom
<1>2. (stack \in Seq(Frames))'
  BY <1>1, StackType, PTL
<1>3. TypeOK'
  BY <1>2 DEF TypeOK, Frames
<1>4. OneOwner' /\ CallbackInv'
  BY DEF OneOwner, CallbackInv, Callbacks, Mapped
<1> QED BY <1>1, <1>3, <1>4

LEMMA DoAcceptLoopKeeps == Inv /\ DoAcceptLoop => Inv'
<1> SUFFICES ASSUME Inv, DoAcceptLoop PROVE Inv'
  OBVIOUS
<1> USE DEF Inv
<1>0. stack = <<Call("DoAcceptLoop")>> /\ Front(stack) = <<>>
  BY InAcceptLoop DEF DoAcceptLoop
<1>1. StackInv'
  <2>1. CASE stack' = Front(stack)
    BY <1>0, <2>1 DEF StackInv
  <2>2. CASE stack' = Append(stack, Call("DoConnect"))
    BY <1>0, <2>2, Pushed, Zenon DEF StackInv
  <2> QED BY <2>1, <2>2 DEF DoAcceptLoop, Return
<1>2. (stack \in Seq(Frames))'
  BY <1>1, StackType, PTL
<1>3. (accepted_socket \in BOOLEAN)'
  BY DEF DoAcceptLoop, TypeOK
<1>4. TypeOK'
  BY <1>2, <1>3 DEF DoAcceptLoop, ownerVars, callbackVars, TypeOK, Frames
<1>5. OneOwner' /\ CallbackInv'
  BY DEF DoAcceptLoop, ownerVars, callbackVars, OneOwner, CallbackInv, Callbacks, Mapped
<1> QED BY <1>1, <1>4, <1>5

LEMMA OnAcceptCompleteKeeps == Inv /\ OnAcceptComplete => Inv'
<1> SUFFICES ASSUME Inv, OnAcceptComplete PROVE Inv'
  OBVIOUS
<1> USE DEF Inv
<1>1. StackInv'
  BY DEF OnAcceptComplete, Idle, StackInv
<1>2. (stack \in Seq(Frames))'
  BY <1>1, StackType, PTL
<1>3. (accepted_socket \in BOOLEAN)'
  BY DEF OnAcceptComplete, TypeOK
<1>4. TypeOK'
  BY <1>2, <1>3 DEF OnAcceptComplete, ownerVars, callbackVars, TypeOK, Frames
<1>5. OneOwner' /\ CallbackInv'
  BY DEF OnAcceptComplete, ownerVars, callbackVars, OneOwner, CallbackInv, Callbacks, Mapped
<1> QED BY <1>1, <1>4, <1>5

\* A connection whose number is taken is in the map, so it is neither doomed
\* nor held by a function: only DoAcceptLoop is below DoConnect.
LEMMA DoConnectKeeps == Inv /\ DoConnect => Inv'
<1> SUFFICES ASSUME Inv, DoConnect PROVE Inv'
  OBVIOUS
<1> USE DEF Inv
<1> DEFINE id == NextId
           replaced == FindConnection(id)
<1>1. PICK c \in Conns \ alive :
        /\ last_id' = id
        /\ ids' = [ids EXCEPT ![c] = id]
        /\ accepted_socket' = FALSE
        /\ connection_by_id' =
             [i \in DOMAIN connection_by_id \cup {id} |->
                IF i = id THEN c ELSE connection_by_id[i]]
        /\ alive' = (alive \ replaced) \cup {c}
        /\ connect_callback' = connect_callback \ replaced
        /\ run_callback' = run_callback \ replaced
        /\ Becomes(Frame("Connect", c, OK))
  BY DEF DoConnect
<1>2. id \in 0..(IdSpace - 1)
  BY IdSpaceAssumption DEF NextId, TypeOK
<1>3. /\ \A x \in replaced : x \in Mapped /\ ids[x] = id
      /\ \A x \in Mapped : ids[x] = id => x \in replaced
  BY DEF FindConnection, Mapped, OneOwner
<1>4. c \notin Mapped /\ c \notin doomed /\ c \notin Callbacks
  BY DEF OneOwner, CallbackInv
<1> HIDE DEF id, replaced
<1>5. /\ DOMAIN connection_by_id' = DOMAIN connection_by_id \cup {id}
      /\ connection_by_id'[id] = c
      /\ \A i \in DOMAIN connection_by_id : i # id => connection_by_id'[i] = connection_by_id[i]
  BY <1>1
<1>6. Mapped' = (Mapped \ replaced) \cup {c}
  <2>1. c \in Mapped'
    BY <1>5 DEF Mapped
  <2>2. ASSUME NEW x \in Mapped, x \notin replaced PROVE x \in Mapped'
    BY <1>3, <1>5, <2>2 DEF Mapped, OneOwner
  <2>3. ASSUME NEW x \in Mapped', x # c PROVE x \in Mapped /\ x \notin replaced
    <3>1. PICK i \in DOMAIN connection_by_id' : x = connection_by_id'[i]
      BY DEF Mapped
    <3>2. i # id /\ i \in DOMAIN connection_by_id /\ x = connection_by_id[i]
      BY <1>5, <2>3, <3>1
    <3> QED BY <1>3, <3>2 DEF Mapped, OneOwner
  <2> QED BY <1>3, <1>4, <2>1, <2>2, <2>3
<1>7. doomed' = doomed /\ accepting' = accepting
  BY DEF DoConnect
<1>8. ids' \in [Conns -> 0..(IdSpace - 1)] /\ ids'[c] = id
  BY <1>1, <1>2 DEF TypeOK
<1>9. OneOwner'
  <2>1. ASSUME NEW i \in DOMAIN connection_by_id' PROVE ids'[connection_by_id'[i]] = i
    <3>1. CASE i = id
      BY <1>5, <1>8, <3>1
    <3>2. CASE i # id
      <4>1. i \in DOMAIN connection_by_id /\ connection_by_id'[i] = connection_by_id[i]
        BY <1>5, <3>2
      <4>2. connection_by_id[i] \in Mapped /\ connection_by_id[i] # c
        BY <1>4, <4>1 DEF Mapped
      <4> QED BY <1>1, <4>1, <4>2 DEF OneOwner, TypeOK
    <3> QED BY <3>1, <3>2
  <2>2. alive' = Mapped' \cup doomed' /\ Mapped' \cap doomed' = {}
    BY <1>1, <1>3, <1>4, <1>6, <1>7 DEF OneOwner
  <2> QED BY <2>1, <2>2 DEF OneOwner
<1>10. Callbacks' = Callbacks \ replaced
  BY <1>1 DEF Callbacks
<1>11. CallbackInv'
  BY <1>1, <1>6, <1>10 DEF CallbackInv
<1>12. StackInv'
  <2> DEFINE a == Call("DoAcceptLoop")
             f == Frame("Connect", c, OK)
  <2>1. stack' = <<a, f>>
    BY <1>1, InDoConnect, Pushed, Zenon DEF DoConnect, Becomes
  <2>2. Holds(f, c)'
    BY <1>1, <1>4, <1>6, <1>10 DEF Holds, Results
  <2>3. Bottom(a)'
    BY DEF Bottom
  <2> HIDE DEF a, f
  <2> QED BY <2>1, <2>2, <2>3 DEF StackInv
<1>13. (stack \in Seq(Frames))'
  BY <1>12, StackType, PTL
<1>14. TypeOK'
  <2>1. (accepted_socket \in BOOLEAN)'
    BY <1>1
  <2>2. MapType'
    BY <1>2, <1>5 DEF TypeOK, MapType
  <2>3. /\ last_id' \in 0..(IdSpace - 1)
        /\ alive' \subseteq Conns
        /\ connect_callback' \subseteq Conns /\ run_callback' \subseteq Conns
    BY <1>1, <1>2 DEF TypeOK
  <2> QED BY <1>7, <1>8, <1>13, <2>1, <2>2, <2>3 DEF TypeOK, MapType, Frames
<1> QED BY <1>9, <1>11, <1>12, <1>14

\* What stays below the top frame, when no connection is destroyed.
LEMMA BottomStays ==
  ASSUME alive' = alive, NEW b, Bottom(b)
  PROVE  Bottom(b)'
BY DEF Bottom

LEMMA BecomesKeeps ==
  ASSUME alive' = alive, NEW b, Bottom(b), Front(stack) = <<b>>,
         NEW f, NEW c \in Conns, Holds(f, c)', Becomes(f)
  PROVE  StackInv'
<1>1. stack' = <<b, f>>
  BY Pushed, Zenon DEF Becomes
<1>2. Bottom(b)'
  BY BottomStays
<1> QED BY <1>1, <1>2 DEF StackInv

LEMMA ReturnKeeps ==
  ASSUME StackInv, alive' = alive, stack # <<>>, Return
  PROVE  StackInv'
<1>1. CASE Front(stack) = <<>>
  BY <1>1 DEF Return, StackInv
<1>2. CASE \E b : Bottom(b) /\ Front(stack) = <<b>>
  BY <1>2, BottomStays, Zenon DEF Return, StackInv
<1> QED BY <1>1, <1>2, TopFrame, Zenon

LEMMA ConnectKeeps == Inv /\ Connect => Inv'
<1> SUFFICES ASSUME Inv, Connect PROVE Inv'
  OBVIOUS
<1> USE DEF Inv
<1>1. PICK c \in Conns :
        /\ c = Top.c /\ c \in alive /\ c \in Mapped /\ c \notin Callbacks
        /\ \E b : Bottom(b) /\ Front(stack) = <<b>>
  BY InStart DEF Connect
<1>2. /\ alive' = alive /\ doomed' = doomed /\ connection_by_id' = connection_by_id
      /\ ids' = ids /\ accepting' = accepting /\ last_id' = last_id
      /\ accepted_socket' = accepted_socket /\ run_callback' = run_callback
  BY DEF Connect, acceptVars, ownerVars
<1>3. \/ connect_callback' = connect_callback \cup {c} /\ Return
      \/ /\ connect_callback' = connect_callback
         /\ \E rv \in Results : Becomes(Frame("HandleConnectResult", c, rv))
  BY <1>1 DEF Connect
<1>4. StackInv'
  <2>1. CASE Return
    BY <1>2, <2>1, ReturnKeeps DEF Connect, Running
  <2>2. CASE /\ connect_callback' = connect_callback
             /\ \E rv \in Results : Becomes(Frame("HandleConnectResult", c, rv))
    <3>1. PICK rv \in Results : Becomes(Frame("HandleConnectResult", c, rv))
      BY <2>2
    <3>2. Holds(Frame("HandleConnectResult", c, rv), c)'
      BY <1>1, <1>2, <2>2 DEF Holds, Mapped, Callbacks
    <3> QED BY <1>1, <1>2, <3>1, <3>2, BecomesKeeps
  <2> QED BY <1>3, <2>1, <2>2
<1>5. (stack \in Seq(Frames))'
  BY <1>4, StackType, PTL
<1>6. TypeOK'
  BY <1>1, <1>2, <1>3, <1>5 DEF TypeOK, Frames
<1>7. OneOwner' /\ CallbackInv'
  BY <1>1, <1>2, <1>3 DEF OneOwner, CallbackInv, Callbacks, Mapped
<1> QED BY <1>4, <1>6, <1>7

LEMMA OnConnectCompleteKeeps ==
  ASSUME NEW c \in Conns
  PROVE  Inv /\ OnConnectComplete(c) => Inv'
<1> SUFFICES ASSUME Inv, OnConnectComplete(c) PROVE Inv'
  OBVIOUS
<1> USE DEF Inv
<1>1. /\ alive' = alive /\ doomed' = doomed /\ connection_by_id' = connection_by_id
      /\ ids' = ids /\ accepting' = accepting /\ last_id' = last_id
      /\ accepted_socket' = accepted_socket /\ run_callback' = run_callback
      /\ connect_callback' = connect_callback \ {c} /\ c \in connect_callback
  BY DEF OnConnectComplete, acceptVars, ownerVars
<1>2. c \in Mapped /\ c \in alive /\ c \notin Callbacks'
  BY <1>1 DEF CallbackInv, Callbacks, OneOwner
<1>3. PICK rv \in Results :
        stack' = <<Frame("Event", c, OK)>> \o
                   SetToSeq({Frame("HandleConnectResult", found, rv) :
                               found \in FindConnection(ids[c])})
  BY DEF OnConnectComplete
<1> DEFINE b == Frame("Event", c, OK)
           f == Frame("HandleConnectResult", c, rv)
<1>4. {Frame("HandleConnectResult", found, rv) : found \in FindConnection(ids[c])} = {f}
  BY <1>2, FindsMapped
<1>5. Bottom(b)' /\ Holds(f, c)'
  BY <1>1, <1>2 DEF Bottom, Holds, Mapped
<1> HIDE DEF b, f
<1>6. stack' = <<b, f>>
  BY <1>3, <1>4, Sole, Bare, Zenon DEF b
<1>7. StackInv'
  BY <1>5, <1>6 DEF StackInv
<1>8. (stack \in Seq(Frames))'
  BY <1>7, StackType, PTL
<1>9. TypeOK'
  BY <1>1, <1>8 DEF TypeOK, Frames
<1>10. OneOwner' /\ CallbackInv'
  BY <1>1 DEF OneOwner, CallbackInv, Callbacks, Mapped
<1> QED BY <1>7, <1>9, <1>10

LEMMA HandleConnectResultKeeps == Inv /\ HandleConnectResult => Inv'
<1> SUFFICES ASSUME Inv, HandleConnectResult PROVE Inv'
  OBVIOUS
<1> USE DEF Inv
<1>1. PICK c \in Conns :
        /\ c = Top.c /\ c \in alive /\ c \in Mapped /\ c \notin Callbacks
        /\ \E b : Bottom(b) /\ Front(stack) = <<b>>
  BY InStart DEF HandleConnectResult
<1>2. /\ ids' = ids /\ accepting' = accepting /\ last_id' = last_id
      /\ accepted_socket' = accepted_socket
      /\ run_callback' = run_callback /\ connect_callback' = connect_callback
      /\ stack # <<>>
  BY DEF HandleConnectResult, Running, acceptVars, callbackVars
<1>3. CASE Close(ids[c]) /\ Return
  <2>1. MapType' /\ OneOwner' /\ Mapped' = Mapped \ {c} /\ doomed' = doomed \cup {c}
    BY <1>1, <1>2, <1>3, CloseKeeps DEF TypeOK, MapType
  <2>2. alive' = alive
    BY <1>3 DEF Close
  <2>3. StackInv'
    BY <1>2, <1>3, <2>2, ReturnKeeps
  <2>4. (stack \in Seq(Frames))'
    BY <2>3, StackType, PTL
  <2>5. TypeOK'
    BY <1>1, <1>2, <2>1, <2>2, <2>4 DEF TypeOK, MapType, Frames
  <2>6. CallbackInv'
    BY <1>1, <1>2, <2>1 DEF CallbackInv, Callbacks
  <2> QED BY <2>1, <2>3, <2>5, <2>6
<1>4. CASE Becomes(Frame("Run", c, OK)) /\ UNCHANGED ownerVars
  <2>1. alive' = alive /\ doomed' = doomed /\ connection_by_id' = connection_by_id
    BY <1>4 DEF ownerVars
  <2>2. Holds(Frame("Run", c, OK), c)'
    BY <1>1, <1>2, <2>1 DEF Holds, Mapped, Callbacks, Results
  <2>3. StackInv'
    BY <1>1, <1>4, <2>1, <2>2, BecomesKeeps
  <2>4. (stack \in Seq(Frames))'
    BY <2>3, StackType, PTL
  <2>5. TypeOK'
    BY <1>1, <1>2, <2>1, <2>4 DEF TypeOK, Frames
  <2>6. OneOwner' /\ CallbackInv'
    BY <1>2, <2>1 DEF OneOwner, CallbackInv, Callbacks, Mapped
  <2> QED BY <2>3, <2>5, <2>6
<1> QED BY <1>1, <1>3, <1>4 DEF HandleConnectResult

LEMMA RunKeeps == Inv /\ Run => Inv'
<1> SUFFICES ASSUME Inv, Run PROVE Inv'
  OBVIOUS
<1> USE DEF Inv
<1>1. PICK c \in Conns :
        /\ c = Top.c /\ c \in alive /\ c \in Mapped /\ c \notin Callbacks
        /\ \E b : Bottom(b) /\ Front(stack) = <<b>>
  BY InStart DEF Run
<1>2. /\ ids' = ids /\ accepting' = accepting /\ last_id' = last_id
      /\ accepted_socket' = accepted_socket /\ connect_callback' = connect_callback
      /\ stack # <<>>
  BY DEF Run, Running, acceptVars
<1>3. CASE Close(ids[c]) /\ Return /\ UNCHANGED run_callback
  <2>1. MapType' /\ OneOwner' /\ Mapped' = Mapped \ {c} /\ doomed' = doomed \cup {c}
    BY <1>1, <1>2, <1>3, CloseKeeps DEF TypeOK, MapType
  <2>2. alive' = alive
    BY <1>3 DEF Close
  <2>3. StackInv'
    BY <1>2, <1>3, <2>2, ReturnKeeps
  <2>4. (stack \in Seq(Frames))'
    BY <2>3, StackType, PTL
  <2>5. TypeOK'
    BY <1>1, <1>2, <1>3, <2>1, <2>2, <2>4 DEF TypeOK, MapType, Frames
  <2>6. CallbackInv'
    BY <1>1, <1>2, <1>3, <2>1 DEF CallbackInv, Callbacks
  <2> QED BY <2>1, <2>3, <2>5, <2>6
<1>4. CASE /\ run_callback' = run_callback \cup {c}
           /\ Becomes(Frame("Event", c, OK)) /\ UNCHANGED ownerVars
  <2>1. alive' = alive /\ doomed' = doomed /\ connection_by_id' = connection_by_id
    BY <1>4 DEF ownerVars
  <2>2. Holds(Frame("Event", c, OK), c)'
    BY <1>1, <2>1 DEF Holds
  <2>3. StackInv'
    BY <1>1, <1>4, <2>1, <2>2, BecomesKeeps
  <2>4. (stack \in Seq(Frames))'
    BY <2>3, StackType, PTL
  <2>5. TypeOK'
    BY <1>1, <1>2, <1>4, <2>1, <2>4 DEF TypeOK, Frames
  <2>6. OneOwner' /\ CallbackInv'
    BY <1>1, <1>2, <1>4, <2>1 DEF OneOwner, CallbackInv, Callbacks, Mapped
  <2> QED BY <2>3, <2>5, <2>6
<1> QED BY <1>1, <1>3, <1>4 DEF Run

LEMMA EventKeeps ==
  ASSUME NEW c \in Conns
  PROVE  Inv /\ Event(c) => Inv'
<1> SUFFICES ASSUME Inv, Event(c) PROVE Inv'
  OBVIOUS
<1> USE DEF Inv
<1>1. UNCHANGED <<acceptVars, ownerVars, callbackVars>>
  BY DEF Event
<1>2. StackInv'
  <2>1. Bottom(Frame("Event", c, OK))'
    BY <1>1 DEF Event, Bottom, ownerVars
  <2> QED BY <2>1 DEF Event, StackInv
<1>3. (stack \in Seq(Frames))'
  BY <1>2, StackType, PTL
<1>4. TypeOK'
  BY <1>1, <1>3 DEF TypeOK, Frames, acceptVars, ownerVars, callbackVars
<1>5. OneOwner' /\ CallbackInv'
  BY <1>1 DEF OneOwner, CallbackInv, Callbacks, Mapped, acceptVars, ownerVars, callbackVars
<1> QED BY <1>2, <1>4, <1>5

LEMMA OnRunCompleteKeeps == Inv /\ OnRunComplete => Inv'
<1> SUFFICES ASSUME Inv, OnRunComplete PROVE Inv'
  OBVIOUS
<1> USE DEF Inv
<1>1. PICK c \in Conns : c = Top.c /\ c \in run_callback
  BY DEF OnRunComplete, TypeOK
<1>2. c \in Mapped /\ c \notin connect_callback
  BY <1>1 DEF CallbackInv, Callbacks
<1>3. /\ run_callback' = run_callback \ {c} /\ connect_callback' = connect_callback
      /\ Close(ids[c]) /\ ids' = ids /\ accepting' = accepting
      /\ last_id' = last_id /\ accepted_socket' = accepted_socket
      /\ stack' = stack
  BY <1>1 DEF OnRunComplete, acceptVars
<1>4. MapType' /\ OneOwner' /\ Mapped' = Mapped \ {c} /\ doomed' = doomed \cup {c}
  BY <1>2, <1>3, CloseKeeps DEF TypeOK, MapType
<1>5. alive' = alive
  BY <1>3 DEF Close
<1>6. TypeOK'
  BY <1>1, <1>3, <1>4, <1>5 DEF TypeOK, MapType
<1>7. CallbackInv'
  BY <1>2, <1>3, <1>4 DEF CallbackInv, Callbacks
<1>8. StackInv'
  <2>1. CASE \E b : Bottom(b) /\ stack = <<b>>
    BY <1>3, <1>5, <2>1, BottomStays, Zenon DEF StackInv
  <2>2. CASE stack = <<Call("DoAcceptLoop"), Call("DoConnect")>>
    BY <1>3, <2>2, Zenon DEF StackInv
  <2>3. CASE \E b, f : Bottom(b) /\ (\E x \in Conns : Holds(f, x)) /\ stack = <<b, f>>
    <3>1. PICK b, f : Bottom(b) /\ (\E x \in Conns : Holds(f, x)) /\ stack = <<b, f>>
      BY <2>3
    <3>2. f = Top /\ f.op = "Event"
      BY <3>1, TopOfTwo DEF OnRunComplete, Running, Top
    <3>3. PICK x \in Conns : x \in alive /\ f = Frame("Event", x, OK)
      BY <3>1, <3>2 DEF Holds, Frame
    <3>4. Holds(f, x)'
      BY <1>5, <3>3 DEF Holds
    <3> QED BY <1>3, <1>5, <3>1, <3>4, BottomStays, Zenon DEF StackInv
  <2> QED BY <2>1, <2>2, <2>3 DEF StackInv, OnRunComplete, Running
<1> QED BY <1>4, <1>6, <1>7, <1>8

LEMMA EventReturnsKeeps == Inv /\ EventReturns => Inv'
<1> SUFFICES ASSUME Inv, EventReturns PROVE Inv'
  OBVIOUS
<1> USE DEF Inv
<1>1. UNCHANGED <<acceptVars, ownerVars, callbackVars>>
  BY DEF EventReturns
<1>2. StackInv'
  BY <1>1, ReturnKeeps DEF EventReturns, Running, ownerVars
<1>3. (stack \in Seq(Frames))'
  BY <1>2, StackType, PTL
<1>4. TypeOK'
  BY <1>1, <1>3 DEF TypeOK, Frames, acceptVars, ownerVars, callbackVars
<1>5. OneOwner' /\ CallbackInv'
  BY <1>1 DEF OneOwner, CallbackInv, Callbacks, Mapped, acceptVars, ownerVars, callbackVars
<1> QED BY <1>2, <1>4, <1>5

\* A doomed connection is not in the map, so no callback of it is left.
LEMMA DeleteKeeps ==
  ASSUME NEW c \in Conns
  PROVE  Inv /\ Delete(c) => Inv'
<1> SUFFICES ASSUME Inv, Delete(c) PROVE Inv'
  OBVIOUS
<1> USE DEF Inv
<1>1. StackInv' /\ stack' = <<>>
  BY DEF Delete, Idle, StackInv
<1>2. (stack \in Seq(Frames))'
  BY <1>1, StackType, PTL
<1>3. TypeOK'
  BY <1>2 DEF Delete, TypeOK, Frames, acceptVars
<1>4. OneOwner' /\ CallbackInv'
  BY DEF Delete, OneOwner, CallbackInv, Callbacks, Mapped, acceptVars
<1> QED BY <1>1, <1>3, <1>4

LEMMA StutterKeeps == Inv /\ UNCHANGED vars => Inv'
<1> SUFFICES ASSUME Inv, UNCHANGED vars PROVE Inv'
  OBVIOUS
<1> USE DEF Inv, vars
<1>1. StackInv'
  BY DEF StackInv, Bottom, Holds, Mapped, Callbacks
<1>2. TypeOK'
  BY DEF TypeOK
<1>3. OneOwner' /\ CallbackInv'
  BY DEF OneOwner, CallbackInv, Callbacks, Mapped
<1> QED BY <1>1, <1>2, <1>3

LEMMA NextKeeps == Inv /\ [Next]_vars => Inv'
BY StartAcceptingKeeps, DoAcceptLoopKeeps, OnAcceptCompleteKeeps, DoConnectKeeps,
   ConnectKeeps, OnConnectCompleteKeeps, HandleConnectResultKeeps, RunKeeps,
   EventKeeps, OnRunCompleteKeeps, EventReturnsKeeps, DeleteKeeps, StutterKeeps
   DEF Next

(***************************************************************************)
(* Every state NaiveProxy reaches satisfies the inductive invariant: its   *)
(* types, one owner per connection, callbacks only of connections in the   *)
(* map, and a call stack of one of four shapes.                            *)
(***************************************************************************)
THEOREM Invariance == Spec => []Inv
BY InitInv, NextKeeps, PTL DEF Spec

-----------------------------------------------------------------------------

(***************************************************************************)
(* The types of naive_proxy.cc's state: in particular last_id_ and the     *)
(* keys of connection_by_id_ stay within the width of an unsigned int.     *)
(***************************************************************************)
THEOREM TypeCorrect == Spec => []TypeOK
BY Invariance, PTL DEF Inv

(***************************************************************************)
(* A connection belongs to connection_by_id_ or to a DeleteSoon task, to   *)
(* one of them only, and the map has it under its own number.              *)
(***************************************************************************)
THEOREM AlwaysOneOwner == Spec => []OneOwner
BY Invariance, PTL DEF Inv

(***************************************************************************)
(* No function of naive_proxy.cc, and no code of a connection that called  *)
(* it, is left with a pointer to a destroyed connection.                   *)
(***************************************************************************)
THEOREM NeverUsedAfterFree == Spec => []NoUseAfterFree
<1>1. Inv => NoUseAfterFree
  <2> SUFFICES ASSUME Inv PROVE NoUseAfterFree
    OBVIOUS
  <2>1. \A b : Bottom(b) => b.c = NoConn \/ b.c \in alive
    BY DEF Bottom, Call, Frame
  <2>2. \A f, c : Holds(f, c) => f.c \in alive
    BY DEF Holds, Frame
  <2>3. Call("DoConnect").c = NoConn /\ Call("DoAcceptLoop").c = NoConn
    BY DEF Call, Frame
  <2>4. CASE stack = <<>>
    BY <2>4 DEF NoUseAfterFree
  <2>5. CASE \E b : Bottom(b) /\ stack = <<b>>
    BY <2>1, <2>5 DEF NoUseAfterFree
  <2>6. CASE stack = <<Call("DoAcceptLoop"), Call("DoConnect")>>
    BY <2>3, <2>6 DEF NoUseAfterFree
  <2>7. CASE \E b, f : Bottom(b) /\ (\E c \in Conns : Holds(f, c)) /\ stack = <<b, f>>
    BY <2>1, <2>2, <2>7 DEF NoUseAfterFree
  <2> QED BY <2>4, <2>5, <2>6, <2>7 DEF Inv, StackInv
<1> QED BY <1>1, Invariance, PTL

(***************************************************************************)
(* OnConnectComplete and OnRunComplete, which look a connection up by its  *)
(* number, find the one that calls them, however often last_id_ wrapped.   *)
(***************************************************************************)
THEOREM CallbacksFindCaller == Spec => []CallbackFindsCaller
<1>1. Inv => CallbackFindsCaller
  BY FindsMapped DEF Inv, CallbackInv, Callbacks, CallbackFindsCaller
<1> QED BY <1>1, Invariance, PTL

(***************************************************************************)
(* The destructor of a NaiveConnection runs in a DeleteSoon task, or in    *)
(* DoConnect when last_id_ has come round to its number.                   *)
(***************************************************************************)
THEOREM OnlyDestroyedAfterClose == Spec => DestroyedAfterClose
<1> DEFINE Destroys ==
      \A c \in alive \ alive' : c \in doomed \/ (last_id' = ids[c] /\ last_id' # last_id)
<1>1. Inv /\ [Next]_vars => [Destroys]_vars
  <2> SUFFICES ASSUME Inv, [Next]_vars PROVE Destroys \/ UNCHANGED vars
    OBVIOUS
  <2>1. CASE DoConnect
    <3>1. last_id' = NextId /\ \A c \in alive \ alive' : c \in FindConnection(NextId)
      BY <2>1 DEF DoConnect
    <3>2. \A c \in FindConnection(NextId) : ids[c] = NextId
      BY DEF Inv, OneOwner, FindConnection
    <3>3. NextId # last_id
      BY IdSpaceAssumption DEF Inv, TypeOK, NextId
    <3> QED BY <3>1, <3>2, <3>3
  <2>2. ASSUME NEW c \in Conns, Delete(c) PROVE Destroys
    BY <2>2 DEF Delete
  <2>3. CASE alive' = alive
    BY <2>3
  <2> QED
    BY <2>1, <2>2, <2>3 DEF Next, StartAccepting, DoAcceptLoop, OnAcceptComplete, Connect,
       HandleConnectResult, Run, OnRunComplete, EventReturns, OnConnectComplete, Event, Close,
       ownerVars, vars
<1> QED BY <1>1, Invariance, PTL DEF Spec, DestroyedAfterClose
=============================================================================

-------------------------- MODULE RedirectResolver --------------------------
(***************************************************************************)
(* RedirectResolver: a DNS server that answers every A query with an       *)
(* artificial address of its range, and that DoConnectServer asks which    *)
(* name an address stands for.  A resolution is a node of a list, oldest   *)
(* first, which two maps point into, by name and by address.  One buffer   *)
(* serves for receiving and sending.                                       *)
(*                                                                         *)
(* The clock is kept as the age of what it stamped, in units of which      *)
(* kResolutionTtl and kResolutionRecycleTime are small multiples; an age   *)
(* past the recycle time is all the same.                                  *)
(***************************************************************************)
EXTENDS Integers, Sequences, FiniteSets, SequencesExt

CONSTANTS
  Names,                   \* names asked for
  AddrSpace,               \* how many addresses there are: 2^32 in the program
  range,                   \* range_, an address
  RangeSize,               \* how many share its first prefix_ bits: 2^(32 - prefix_)
  kResolutionTtl,
  kResolutionRecycleTime

ASSUME NamesAssumption == Names \cap {"none", "failed", "malformed", "other type"} = {}
ASSUME WidthAssumption ==
  AddrSpace \in Nat \ {0} /\ RangeSize \in Nat \ {0} /\ AddrSpace % RangeSize = 0
ASSUME RangeAssumption == range \in 0..(AddrSpace - 1)
ASSUME TimesAssumption ==
  /\ kResolutionTtl \in Nat /\ kResolutionRecycleTime \in Nat
  /\ kResolutionTtl <= kResolutionRecycleTime

VARIABLES
  resolutions,         \* resolutions_: nodes with addr, name and age of time
  resolution_by_name,  \* name to node
  resolution_by_addr,  \* address to node
  offset,              \* offset_
  subnet,              \* the outcome of ~0U >> prefix_
  operations,          \* outstanding "recv" and "send", and "posted" DoRead
  call,                \* the function being executed, "none" in the message loop
  query,               \* what HandleReadResult reads from buffer_, else "none"
  answers              \* the answers clients may still use: name, addr, age

vars == <<resolutions, resolution_by_name, resolution_by_addr, offset, subnet,
          operations, call, query, answers>>
tableVars == <<resolutions, resolution_by_name, resolution_by_addr, offset>>

-----------------------------------------------------------------------------
Addresses == 0..(AddrSpace - 1)
Queries == Names \cup {"failed", "malformed", "other type"}
MaxAge == kResolutionRecycleTime + 1

\* Shifting by the whole width, a prefix_ of 32, is undefined: a build may see
\* no shift at all (x86) or a result of 0.
ShiftOutcomes == IF RangeSize > 1 THEN {RangeSize - 1} ELSE {0, AddrSpace - 1}

Network == range - (range % (subnet + 1))

IsInResolvedRange(addr) == addr \div RangeSize = range \div RangeSize

\* The node that an iterator points to.
Position(n) == CHOOSE k \in DOMAIN resolutions : resolutions[k].node = n
Node(n) == resolutions[Position(n)]
FindNameByAddress(addr) == Node(resolution_by_addr[addr]).name

Init ==
  /\ resolutions = <<>>
  /\ resolution_by_name = [n \in {} |-> 0]
  /\ resolution_by_addr = [a \in {} |-> 0]
  /\ offset = 0 /\ subnet \in ShiftOutcomes
  /\ operations = {"posted"}
  /\ call = "none" /\ query = "none"
  /\ answers = {}

-----------------------------------------------------------------------------
\* Receiving and sending.

\* The task posted by the constructor.
StartReading ==
  /\ call = "none" /\ "posted" \in operations
  /\ operations' = operations \ {"posted"}
  /\ call' = "DoRead"
  /\ UNCHANGED <<tableVars, subnet, query, answers>>

DoRead ==
  /\ call = "DoRead"
  /\ \/ /\ operations' = operations \cup {"recv"}
        /\ call' = "none"
        /\ UNCHANGED query
     \/ /\ query' \in Queries
        /\ call' = "HandleReadResult"
        /\ UNCHANGED operations
  /\ UNCHANGED <<tableVars, subnet, answers>>

OnRecv ==
  /\ call = "none" /\ "recv" \in operations
  /\ operations' = operations \ {"recv"}
  /\ query' \in Queries
  /\ call' = "HandleReadResult"
  /\ UNCHANGED <<tableVars, subnet, answers>>

OnSend ==
  /\ call = "none" /\ "send" \in operations
  /\ operations' = operations \ {"send"}
  /\ call' = "DoRead"
  /\ UNCHANGED <<tableVars, subnet, query, answers>>

\* Mutant: ERR_IO_PENDING is taken for a result.
ReplyUnawaited ==
  /\ operations' \in {operations, operations \cup {"send"}}
  /\ call' = "DoRead"

\* SendTo: pending, or done or failed at once; then DoRead goes on.
Reply ==
  \/ operations' = operations \cup {"send"} /\ call' = "none"
  \/ operations' = operations /\ call' = "DoRead"

-----------------------------------------------------------------------------
\* HandleReadResult.

Handling == call = "HandleReadResult"

\* A failed read or a malformed query is ignored.
IgnoreQuery ==
  /\ Handling /\ query \in {"failed", "malformed"}
  /\ call' = "DoRead"
  /\ query' = "none"
  /\ UNCHANGED <<tableVars, subnet, operations, answers>>

\* A query of another type is answered with SERVFAIL.
RefuseQuery ==
  /\ Handling /\ query = "other type"
  /\ Reply
  /\ query' = "none"
  /\ UNCHANGED <<tableVars, subnet, answers>>

Erase(n) == RemoveAt(resolutions, Position(n))
FreshNode(list) ==
  CHOOSE n \in 1..(Len(list) + 1) : \A k \in DOMAIN list : list[k].node # n
Resolution(n, addr, age) == [node |-> n, addr |-> addr, name |-> query, age |-> age]

\* A new node at the end of list, stamped now, with both map entries pointing
\* to it; keptNames and keptAddrs are the other keys of the maps.
EmplaceBack(list, addr, keptNames, keptAddrs) ==
  LET n == FreshNode(list)
  IN /\ resolutions' = Append(list, Resolution(n, addr, 0))
     /\ resolution_by_name' =
          [m \in keptNames \cup {query} |-> IF m = query THEN n ELSE resolution_by_name[m]]
     /\ resolution_by_addr' =
          [a \in keptAddrs \cup {addr} |-> IF a = addr THEN n ELSE resolution_by_addr[a]]

Answered(addr) ==
  /\ answers' = {a \in answers : a.name # query \/ a.addr # addr}
                  \cup {[name |-> query, addr |-> addr, age |-> 0]}
  /\ Reply
  /\ query' = "none"
  /\ UNCHANGED subnet

\* Mutants: the node keeps its place; the node keeps its time.
RefreshInPlace ==
  LET old == Node(resolution_by_name[query])
  IN /\ resolutions' = [k \in DOMAIN resolutions |->
                          IF resolutions[k] = old THEN [old EXCEPT !.age = 0]
                          ELSE resolutions[k]]
     /\ UNCHANGED <<resolution_by_name, resolution_by_addr, offset>>

RefreshNoTime ==
  LET old == Node(resolution_by_name[query])
  IN /\ resolutions' = Append(Erase(old.node), old)
     /\ UNCHANGED <<resolution_by_name, resolution_by_addr, offset>>

\* A known name: its node is replaced by a new one at the end of the list.
Refresh ==
  LET old == Node(resolution_by_name[query])
  IN /\ EmplaceBack(Erase(old.node), old.addr,
                    DOMAIN resolution_by_name, DOMAIN resolution_by_addr)
     /\ UNCHANGED offset

AnswerKnown ==
  /\ Handling /\ query \in DOMAIN resolution_by_name
  /\ Refresh
  /\ Answered(Node(resolution_by_name[query]).addr)

\* Mutant: the offset runs on past the subnet.
NextOffsetUnmasked == offset + 1

NextOffset == (offset + 1) % (subnet + 1)

NewAddr == (Network + offset) % AddrSpace

\* Mutant: the name that had the address stays in the map.
OverwriteKeepsName ==
  LET old == Node(resolution_by_addr[NewAddr])
  IN EmplaceBack(Erase(old.node), NewAddr,
                 DOMAIN resolution_by_name, DOMAIN resolution_by_addr)

\* The next address belongs to another name, which loses it.
Overwrite ==
  LET old == Node(resolution_by_addr[NewAddr])
  IN EmplaceBack(Erase(old.node), NewAddr,
                 DOMAIN resolution_by_name \ {old.name}, DOMAIN resolution_by_addr)

AnswerOverwriting ==
  /\ Handling /\ query \in Names \ DOMAIN resolution_by_name
  /\ NewAddr \in DOMAIN resolution_by_addr
  /\ offset' = NextOffset
  /\ Overwrite
  /\ Answered(NewAddr)

\* Where the garbage collection stops: at the first node whose time is not past.
FirstKept ==
  CHOOSE k \in 1..(Len(resolutions) + 1) :
    /\ \A i \in 1..(k - 1) : resolutions[i].age > kResolutionRecycleTime
    /\ k \in DOMAIN resolutions => resolutions[k].age <= kResolutionRecycleTime

Garbage == {resolutions[i] : i \in 1..(FirstKept - 1)}

Add ==
  EmplaceBack(SubSeq(resolutions, FirstKept, Len(resolutions)), NewAddr,
              DOMAIN resolution_by_name \ {r.name : r \in Garbage},
              DOMAIN resolution_by_addr \ {r.addr : r \in Garbage})

AnswerAdding ==
  /\ Handling /\ query \in Names \ DOMAIN resolution_by_name
  /\ NewAddr \notin DOMAIN resolution_by_addr
  /\ offset' = NextOffset
  /\ Add
  /\ Answered(NewAddr)

\* Time passes; clients forget the answers whose TTL is over.
Tick ==
  /\ call = "none"
  /\ resolutions' = [k \in DOMAIN resolutions |->
       [resolutions[k] EXCEPT !.age = IF @ = MaxAge THEN @ ELSE @ + 1]]
  /\ answers' = {[a EXCEPT !.age = @ + 1] :
                   a \in {b \in answers : b.age < kResolutionTtl}}
  /\ UNCHANGED <<resolution_by_name, resolution_by_addr, offset, subnet,
                 operations, call, query>>

Next ==
  \/ StartReading \/ DoRead \/ OnRecv \/ OnSend \/ Tick
  \/ IgnoreQuery \/ RefuseQuery
  \/ AnswerKnown \/ AnswerOverwriting \/ AnswerAdding

Spec == Init /\ [][Next]_vars

-----------------------------------------------------------------------------
\* Properties.

TypeOK ==
  /\ resolutions \in Seq([node : Nat, addr : Addresses, name : Names, age : 0..MaxAge])
  /\ DOMAIN resolution_by_name \subseteq Names
  /\ DOMAIN resolution_by_addr \subseteq Addresses
  /\ offset \in 0..subnet /\ subnet \in Addresses
  /\ operations \subseteq {"posted", "recv", "send"}
  /\ call \in {"none", "DoRead", "HandleReadResult"}
  /\ query \in Queries \cup {"none"}
  /\ answers \subseteq [name : Names, addr : Addresses, age : 0..kResolutionTtl]

(***************************************************************************)
(* The list and the two maps describe one bijection between names and      *)
(* addresses, and no iterator dangles, whatever mix of refreshes,          *)
(* overwrites and garbage collections led here.  All the addresses are in  *)
(* the resolved range, so that DoConnectServer never takes an artificial   *)
(* address it has forgotten for a real one.                                *)
(***************************************************************************)
MapsAgree ==
  /\ \A n \in DOMAIN resolution_by_name :
       \E r \in ToSet(resolutions) : r.node = resolution_by_name[n] /\ r.name = n
  /\ \A a \in DOMAIN resolution_by_addr :
       \E r \in ToSet(resolutions) : r.node = resolution_by_addr[a] /\ r.addr = a
  /\ \A r \in ToSet(resolutions) :
       /\ r.name \in DOMAIN resolution_by_name
       /\ r.addr \in DOMAIN resolution_by_addr
       /\ resolution_by_name[r.name] = r.node
       /\ resolution_by_addr[r.addr] = r.node
       /\ IsInResolvedRange(r.addr)

(***************************************************************************)
(* The resolver is always either busy, about to start, or waiting for      *)
(* exactly one of a query and the end of a send: it never goes deaf, and   *)
(* never receives into the buffer that is being sent.                      *)
(***************************************************************************)
OneOperation ==
  Cardinality(operations) = IF call = "none" THEN 1 ELSE 0

(***************************************************************************)
(* While a client may use an answer its address is known, and stands for   *)
(* the name that was answered, or for one that a later answer gave the     *)
(* same address to: collecting garbage takes no address that is in use,    *)
(* and a refresh counts from the last answer.                              *)
(***************************************************************************)
AnswersTranslate ==
  \A x \in answers :
    /\ x.addr \in DOMAIN resolution_by_addr
    /\ \E y \in answers : /\ y.addr = x.addr /\ y.age <= x.age
                          /\ FindNameByAddress(x.addr) = y.name

(***************************************************************************)
(* Although it looks at the front of the list only, the garbage collection *)
(* after a new address leaves nothing past its time.                       *)
(***************************************************************************)
CollectsAll ==
  [][DOMAIN resolution_by_addr' \subseteq DOMAIN resolution_by_addr \/
       \A r \in ToSet(resolutions') : r.age <= kResolutionRecycleTime]_vars
=============================================================================

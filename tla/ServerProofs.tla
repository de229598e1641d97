---------------------------- MODULE ServerProofs ----------------------------
(***************************************************************************)
(* Server for any clients and descriptors: its type invariant, that every  *)
(* open descriptor has one owner, that a connection is closed by its       *)
(* own handle() only, and that the program does not fall asleep.           *)
(***************************************************************************)
EXTENDS Server, SequenceTheorems, FiniteSetTheorems, TLAPS

(* The thread runs server(), a handle() that the loop resumed, or one that *)
(* server() called; the handle() has not ended.                            *)
Stacked ==
  \/ stack = <<>> \/ stack = <<Server>>
  \/ \E p \in Peers : (stack = <<p>> \/ stack = <<Server, p>>) /\ conn[p] = "running"

(* h has the connection of a client that has no handle() yet. *)
Carries(h) ==
  /\ value[h] \in Descriptors
  /\ table[value[h]] \in Peers
  /\ conn[table[value[h]]] = "none"

(* Where the handles outside of handle()'s frames have a descriptor.       *)
Places ==
  /\ server = "create" => value[Listener] = Invalid
  /\ value[Client] # Invalid =>
       IF platform = "posix" THEN server = "take"
                             ELSE server \in {"try", "armed", "fired", "resume", "take"}
  /\ platform = "windows" /\ server \in {"try", "armed", "fired", "resume"} =>
       value[Client] # Invalid
  /\ server = "take" /\ ~ ec => Carries(Client)
  /\ outcome # "none" => platform = "windows" /\ server \in {"fired", "resume"}
  /\ outcome = "ok" => Carries(Client)
  /\ value[Param] # Invalid => server = "call"
  /\ server = "call" => Carries(Param)

(* Who waits to be accepted waits once, and has nothing yet.               *)
Waiting ==
  /\ \A i, j \in DOMAIN backlog : backlog[i] = backlog[j] => i = j
  /\ \A i \in DOMAIN backlog :
       conn[backlog[i]] = "none" /\ \A d \in Descriptors : table[d] # backlog[i]

(* OwnedOnce for the descriptors, handle by handle, and for the clients.   *)
Owned ==
  /\ \A g, h \in Handles : value[g] # Invalid /\ value[g] = value[h] => g = h
  /\ \A h \in Handles : value[h] # Invalid => table[value[h]] # Free
  /\ \A d \in Descriptors : table[d] # Free => \E h \in Handles : value[h] = d

Kept ==
  \A p \in Peers :
    IF conn[p] \in {"running", "waiting"} THEN value[p] # Invalid /\ table[value[p]] = p
                                          ELSE value[p] = Invalid

Inv == TypeOK /\ Owned /\ Kept /\ Stacked /\ Places /\ Waiting

LEMMA OwnedIsOnce == TypeOK => (Owned /\ Kept <=> OwnedOnce)
<1> SUFFICES ASSUME TypeOK PROVE Owned /\ Kept <=> OwnedOnce
  OBVIOUS
<1> USE ServerConstants
<1>1. value \in [Handles -> Descriptors \cup {Invalid}]
  BY DEF TypeOK
<1>2. Owned <=> \A d \in Descriptors :
        IF table[d] = Free THEN \A h \in Handles : value[h] # d
                           ELSE \E h \in Handles : \A g \in Handles : value[g] = d <=> g = h
  BY <1>1 DEF Owned
<1> QED
  BY <1>2 DEF OwnedOnce, Kept

LEMMA ThreeDistinct ==
  ASSUME NEW a, NEW b, NEW c, Cardinality({a, b, c}) = 3
  PROVE  a # b /\ a # c /\ b # c
<1>1. \A x, y : Cardinality({x, y}) \in 0 .. 2
  <2> TAKE x, y
  <2>1. IsFiniteSet({x}) /\ Cardinality({x}) = 1
    BY FS_Singleton
  <2>2. {x, y} = {x} \cup {y}
    OBVIOUS
  <2> QED
    BY <2>1, <2>2, FS_AddElement
<1>2. a = b => {a, b, c} = {a, c}
  OBVIOUS
<1>3. a = c => {a, b, c} = {a, b}
  OBVIOUS
<1>4. b = c => {a, b, c} = {a, b}
  OBVIOUS
<1>5. Cardinality({a, b}) # 3 /\ Cardinality({a, c}) # 3
  BY <1>1
<1> QED
  BY <1>2, <1>3, <1>4, <1>5

(* The names are those of different things. *)
LEMMA Names ==
  /\ Listener # Client /\ Listener # Param /\ Client # Param
  /\ Free # Unused /\ Free # Listener /\ Unused # Listener
  /\ {Free, Unused, Listener, Client, Param, Server, Local, None} \cap Peers = {}
  /\ Invalid \notin Descriptors
  /\ {Listener, Client, Param} \cup Peers = Handles
BY ServerConstants, ThreeDistinct DEF Handles

LEMMA Stacks ==
  /\ <<>> \in Seq(Peers \cup {Server})
  /\ <<Server>> \in Seq(Peers \cup {Server})
  /\ \A p \in Peers : Append(<<Server>>, p) = <<Server, p>>
<1> DEFINE S == Peers \cup {Server}
<1>1. <<>> \in Seq(S)
  BY EmptySeq
<1>2. <<Server>> \in Seq(S)
  BY Server \in S
<1>3. ASSUME NEW p \in Peers PROVE Append(<<Server>>, p) = <<Server, p>>
  <2> DEFINE a == Append(<<Server>>, p)
             b == <<Server, p>>
  <2>1. /\ a \in Seq(S) /\ Len(a) = 2 /\ a[1] = Server /\ a[2] = p
    BY <1>2, AppendProperties
  <2>2. /\ b \in Seq(S) /\ Len(b) = 2 /\ b[1] = Server /\ b[2] = p
    OBVIOUS
  <2> HIDE DEF a, b
  <2>3. a = b
    BY <2>1, <2>2, SeqEqual
  <2> QED
    BY <2>3 DEF a, b
<1> QED
  BY <1>1, <1>2, <1>3

(* Who is on top of the stack, and what is below.                          *)
LEMMA OnTop ==
  ASSUME Stacked
  PROVE  /\ Runs(Server) => stack = <<Server>> /\ Front(stack) = <<>>
         /\ \A p \in Peers : Runs(p) =>
              conn[p] = "running" /\ Front(stack) \in {<<>>, <<Server>>}
<1>1. ASSUME NEW s PROVE Last(<<s>>) = s /\ Front(<<s>>) = <<>>
  BY SubSeqEmpty DEF Last, Front
<1>2. ASSUME NEW s, NEW t PROVE Last(<<s, t>>) = t /\ Front(<<s, t>>) = <<s>>
  <2> DEFINE b == SubSeq(<<s, t>>, 1, 1)
  <2>1. /\ b \in Seq({s, t}) /\ Len(b) = 1 /\ b[1] = s
    BY SubSeqProperties
  <2>2. b = <<s>>
    <3> HIDE DEF b
    <3> QED
      BY <2>1, SeqEqual
  <2> QED
    BY <2>2 DEF Last, Front
<1> QED
  BY <1>1, <1>2, Names DEF Stacked, Runs

-----------------------------------------------------------------------------
(* The handles *)

LEMMA Opens ==
  ASSUME TypeOK, Owned, NEW h \in Handles, value[h] = Invalid,
         NEW d \in FreeDescriptors, NEW x, x # Free,
         value' = [value EXCEPT ![h] = d], table' = [table EXCEPT ![d] = x]
  PROVE  Owned'
BY Names DEF TypeOK, Owned, FreeDescriptors

LEMMA Closes ==
  ASSUME TypeOK, Owned, NEW h \in Handles,
         value' = [value EXCEPT ![h] = Invalid], table' = Closed(table, h)
  PROVE  Owned'
BY Names DEF TypeOK, Owned, Closed

LEMMA Moves ==
  ASSUME TypeOK, Owned, NEW g \in Handles, NEW h \in Handles, g # h, value[h] = Invalid,
         value' = MoveConstruct(value, g, h), table' = table
  PROVE  Owned'
<1>1. value' = [x \in Handles |-> IF x = g THEN Invalid ELSE IF x = h THEN value[g] ELSE value[x]]
  BY DEF MoveConstruct, TypeOK
<1>2. \A x, y \in Handles : value'[x] # Invalid /\ value'[x] = value'[y] => x = y
  BY <1>1 DEF Owned
<1>3. \A x \in Handles : value'[x] # Invalid => table[value'[x]] # Free
  BY <1>1 DEF Owned
<1>4. ASSUME NEW d \in Descriptors, table[d] # Free PROVE \E x \in Handles : value'[x] = d
  <2>1. PICK x \in Handles : value[x] = d
    BY <1>4 DEF Owned
  <2>2. value'[IF x = g THEN h ELSE x] = d
    BY <1>1, <2>1, Names
  <2> QED
    BY <2>2
<1> QED
  BY <1>2, <1>3, <1>4 DEF Owned

LEMMA Relabels ==
  ASSUME TypeOK, Owned, NEW h \in Handles, value[h] # Invalid, NEW x, x # Free,
         table' = [table EXCEPT ![value[h]] = x], value' = value
  PROVE  Owned'
BY Names DEF TypeOK, Owned

(* The clients' handles are not concerned with those of the operation.     *)
LEMMA KeptAside ==
  ASSUME TypeOK, Owned, Kept, conn' = conn,
         \A p \in Peers : value'[p] = value[p],
         \A p \in Peers : value[p] # Invalid => table'[value[p]] = table[value[p]]
  PROVE  Kept'
BY DEF Kept

(* No descriptor is newly that of a client, and the queue stays.           *)
LEMMA WaitingStays ==
  ASSUME Waiting, conn' = conn, backlog' = backlog,
         \A d \in Descriptors : table'[d] \in Peers => table'[d] = table[d],
         TypeOK
  PROVE  Waiting'
<1>1. \A i \in DOMAIN backlog : backlog[i] \in Peers
  BY LenProperties, ElementOfSeq DEF TypeOK
<1> QED
  BY <1>1 DEF Waiting

(* A length written back into the endpoint of a handle. *)
LEMMA SizeTyped ==
  ASSUME NEW A, NEW S, NEW e \in [Handles -> [addr : A, size : S]],
         NEW h \in Handles, NEW n \in S
  PROVE  [e EXCEPT ![h].size = n] \in [Handles -> [addr : A, size : S]]
<1>1. [e[h] EXCEPT !.size = n] \in [addr : A, size : S]
  OBVIOUS
<1> QED
  BY <1>1

(* The oldest that waits. *)
LEMMA HeadWaits ==
  ASSUME TypeOK, Waiting, backlog # <<>>
  PROVE  /\ Head(backlog) \in Peers /\ conn[Head(backlog)] = "none"
         /\ \A d \in Descriptors : table[d] # Head(backlog)
         /\ Tail(backlog) \in Seq(Peers)
<1>1. backlog \in Seq(Peers) /\ Len(backlog) \in Nat /\ Len(backlog) # 0
  BY EmptySeq, LenProperties DEF TypeOK
<1>2. 1 \in DOMAIN backlog /\ Head(backlog) = backlog[1]
  BY <1>1, LenProperties
<1> QED
  BY <1>1, <1>2, HeadTailProperties DEF Waiting

(* It leaves the queue, perhaps for a descriptor. *)
LEMMA WaitingTaken ==
  ASSUME TypeOK, Waiting, backlog # <<>>, conn' = conn, backlog' = Tail(backlog),
         \A d \in Descriptors : table'[d] \in Peers => table'[d] \in {table[d], Head(backlog)}
  PROVE  Waiting'
<1>1. backlog \in Seq(Peers) /\ Len(backlog) \in Nat /\ Len(backlog) # 0
  BY EmptySeq, LenProperties DEF TypeOK
<1>2. /\ DOMAIN backlog = 1 .. Len(backlog) /\ Head(backlog) = backlog[1]
      /\ \A i \in DOMAIN backlog : backlog[i] \in Peers
  BY <1>1, LenProperties, ElementOfSeq
<1>3. DOMAIN backlog' = 1 .. Len(backlog) - 1
  BY <1>1, HeadTailProperties, LenProperties
<1>4. \A i \in DOMAIN backlog' : backlog'[i] = backlog[i + 1] /\ i + 1 \in DOMAIN backlog
  BY <1>1, <1>2, <1>3, HeadTailProperties
<1>5. \A i, j \in DOMAIN backlog' : backlog'[i] = backlog'[j] => i = j
  BY <1>1, <1>2, <1>3, <1>4 DEF Waiting
<1>6. ASSUME NEW i \in DOMAIN backlog' PROVE backlog'[i] # Head(backlog)
  BY <1>1, <1>2, <1>3, <1>4 DEF Waiting
<1>7. ASSUME NEW i \in DOMAIN backlog', NEW d \in Descriptors PROVE table'[d] # backlog'[i]
  BY <1>2, <1>4, <1>6 DEF Waiting
<1> QED
  BY <1>4, <1>5, <1>7 DEF Waiting

-----------------------------------------------------------------------------
(* server() *)

LEMMA CreatePreserves == ASSUME Inv, Create PROVE Inv'
<1> USE Names DEF Inv
<1>1. /\ server = "create" /\ server' \in {"unwind", "bind"}
      /\ UNCHANGED <<platform, context, stack, ec, outcome, endpoint, conn, network>>
      /\ value[Listener] = Invalid
  BY DEF Create, Places
<1>2. CASE UNCHANGED <<value, table>>
  <2>1. TypeOK'
    BY <1>1, <1>2 DEF TypeOK, context, network
  <2> QED
    BY <1>1, <1>2, <2>1 DEF context, network, Owned, Kept, Stacked, Places, Carries, Waiting
<1>3. ASSUME NEW d \in FreeDescriptors,
             value' = [value EXCEPT ![Listener] = d],
             table' = [table EXCEPT ![d] = Listener]
      PROVE  Inv'
  <2>1. TypeOK'
    BY <1>1, <1>3 DEF TypeOK, context, network, FreeDescriptors
  <2>2. Owned'
    BY <1>1, <1>3, Opens
  <2>3. Kept'
    BY <1>1, <1>3, KeptAside DEF TypeOK, Owned, FreeDescriptors
  <2>4. Stacked'
    BY <1>1 DEF Stacked
  <2>5. Places'
    BY <1>1, <1>3 DEF TypeOK, Places, Carries
  <2>6. Waiting'
    BY <1>1, <1>3, WaitingStays DEF TypeOK, network, FreeDescriptors
  <2> QED
    BY <2>1, <2>2, <2>3, <2>4, <2>5, <2>6
<1> QED
  BY <1>2, <1>3 DEF Create

(* What changes places only. *)
LEMMA QuietPreserves ==
  ASSUME Inv, Bind \/ Listen \/ Arm \/ Dispatch \/ Run \/ Interrupted
  PROVE  Inv'
<1> USE Names DEF Inv
<1>1. /\ UNCHANGED <<value, table, conn, backlog, aborted, platform, outcome, ec>>
      /\ stack' \in {stack, <<>>, <<Server>>}
  BY OnTop, Zenon DEF Bind, Listen, Arm, Dispatch, Run, Interrupted, context, network, sockets, accept
<1>2. TypeOK'
  <2>1. CASE Bind
    <3>1. endpoint' \in [Handles -> [addr : Peers \cup {Local, None}, size : {0, InSize, Capacity}]]
      <4> DEFINE E == [addr : Peers \cup {Local, None}, size : {0, InSize, Capacity}]
      <4>1. \A e \in E : Assigned(e, LocalEndpoint) \in E
        BY DEF Assigned, LocalEndpoint
      <4>2. /\ endpoint \in [Handles -> E]
            /\ \/ endpoint' = endpoint
               \/ endpoint' = [endpoint EXCEPT ![Listener] = Assigned(@, LocalEndpoint)]
        BY <2>1 DEF Bind, TypeOK
      <4> HIDE DEF E
      <4>3. endpoint' \in [Handles -> E]
        BY <4>1, <4>2
      <4> QED
        BY <4>3 DEF E
    <3> QED
      BY <1>1, <2>1, <3>1 DEF Bind, TypeOK, context, network
  <2>2. CASE Listen
    <3>1. listens' \in BOOLEAN
      BY <2>2, Zenon DEF Listen
    <3> QED
      BY <1>1, <2>2, <3>1 DEF Listen, TypeOK, context, sockets
  <2>3. CASE Arm
    BY <2>3, OnTop DEF Arm, TypeOK, context, network, sockets
  <2>4. CASE Dispatch
    BY <2>4 DEF Dispatch, TypeOK, context, network, sockets
  <2>5. CASE Run \/ Interrupted
    BY <2>5 DEF Run, Interrupted, TypeOK, network, sockets, accept
  <2> QED
    BY <2>1, <2>2, <2>3, <2>4, <2>5
<1>3. Owned' /\ Kept' /\ Waiting'
  BY <1>1 DEF Owned, Kept, Waiting
<1>4. Stacked'
  BY <1>1 DEF Stacked
<1>5. Places'
  BY <1>1 DEF Bind, Listen, Arm, Dispatch, Run, Interrupted, accept, Places, Carries, TypeOK
<1> QED
  BY <1>2, <1>3, <1>4, <1>5

LEMMA AcceptPreserves == ASSUME Inv, Accept PROVE Inv'
<1> USE Names DEF Inv
<1>1. /\ server = "accept" /\ ec' = FALSE /\ UNCHANGED <<platform, outcome, conn, backlog>>
      /\ value[Client] = Invalid /\ value[Param] = Invalid /\ outcome = "none"
  BY DEF Accept, network, Places
<1>2. /\ stack' \in {stack, <<>>} /\ main' \in {main, "terminated"}
      /\ UNCHANGED <<stop, wake, listens, aborted>>
      /\ endpoint' \in [Handles -> [addr : Peers \cup {Local, None}, size : {0, InSize, Capacity}]]
  BY DEF Accept, network, NoEndpoint, TypeOK
<1>3. stack' \in Seq(Peers \cup {Server}) /\ {stop', wake', ec', listens'} \subseteq BOOLEAN
  <2>1. stack' \in Seq(Peers \cup {Server})
    BY <1>2, Stacks DEF TypeOK
  <2>2. stop' \in BOOLEAN /\ wake' \in BOOLEAN /\ listens' \in BOOLEAN
    BY <1>2 DEF TypeOK
  <2>3. ec' \in BOOLEAN
    BY <1>1, Zenon
  <2> QED
    BY <2>1, <2>2, <2>3
<1>4. ASSUME UNCHANGED <<value, table>>,
             server' = "accept" \/ (server' = "try" /\ platform = "posix")
      PROVE  Inv'
  <2>1. TypeOK'
    BY <1>1, <1>2, <1>3, <1>4 DEF TypeOK
  <2>2. Places'
    BY <1>1, <1>4 DEF Places, Carries, TypeOK
  <2> QED
    BY <1>1, <1>2, <1>4, <2>1, <2>2 DEF Owned, Kept, Waiting, Stacked
<1>5. ASSUME platform = "windows", server' = "try", main' = main,
             NEW d \in FreeDescriptors,
             value' = [value EXCEPT ![Client] = d],
             table' = [table EXCEPT ![d] = Unused]
      PROVE  Inv'
  <2>1. TypeOK'
    BY <1>1, <1>2, <1>3, <1>5 DEF TypeOK, FreeDescriptors
  <2>2. Owned'
    BY <1>1, <1>5, Opens
  <2>3. Kept'
    BY <1>1, <1>5, KeptAside DEF TypeOK, Owned, FreeDescriptors
  <2>4. Stacked'
    BY <1>1, <1>2 DEF Stacked
  <2>5. Places'
    BY <1>1, <1>5 DEF TypeOK, Places, Carries, FreeDescriptors
  <2>6. Waiting'
    BY <1>1, <1>5, WaitingStays DEF TypeOK, network, FreeDescriptors
  <2> QED
    BY <2>1, <2>2, <2>3, <2>4, <2>5, <2>6
<1> QED
  BY <1>1, <1>4, <1>5 DEF Accept

LEMMA TryAcceptPreserves == ASSUME Inv, TryAccept PROVE Inv'
<1> USE Names DEF Inv
<1>1. /\ server = "try" /\ platform = "posix"
      /\ UNCHANGED <<platform, context, stack, outcome, conn, listens, aborted>>
      /\ value[Client] = Invalid /\ value[Param] = Invalid /\ outcome = "none"
  BY DEF TryAccept, Places
<1>2. ASSUME NEW d \in FreeDescriptors, backlog # <<>>,
             value' = [value EXCEPT ![Client] = d],
             table' = [Closed(table, Client) EXCEPT ![d] = Head(backlog)],
             endpoint' = [endpoint EXCEPT ![Client] = [addr |-> Head(backlog), size |-> InSize]],
             backlog' = Tail(backlog), server' = "take", ec' = ec
      PROVE  Inv'
  <2>1. /\ Head(backlog) \in Peers /\ conn[Head(backlog)] = "none"
        /\ \A e \in Descriptors : table[e] # Head(backlog)
        /\ Tail(backlog) \in Seq(Peers)
    BY <1>2, HeadWaits
  <2>2. Closed(table, Client) = table
    BY <1>1 DEF Closed, TypeOK
  <2>3. TypeOK'
    BY <1>1, <1>2, <2>1, <2>2 DEF TypeOK, context, FreeDescriptors
  <2>4. Owned'
    BY <1>1, <1>2, <2>1, <2>2, Opens
  <2>5. Kept'
    BY <1>1, <1>2, <2>2, KeptAside DEF TypeOK, Owned, FreeDescriptors
  <2>6. Stacked'
    BY <1>1 DEF Stacked
  <2>7. Places'
    <3>1. /\ value'[Client] = d /\ value'[Param] = Invalid /\ value'[Listener] = value[Listener]
          /\ table'[d] = Head(backlog) /\ d \in Descriptors
      BY <1>1, <1>2, <2>2 DEF TypeOK, FreeDescriptors
    <3>2. Carries(Client)'
      BY <1>1, <1>2, <2>1, <3>1 DEF Carries
    <3> QED
      BY <1>1, <1>2, <3>1, <3>2 DEF Places
  <2>8. Waiting'
    BY <1>1, <1>2, <2>2, WaitingTaken DEF TypeOK, FreeDescriptors
  <2> QED
    BY <2>3, <2>4, <2>5, <2>6, <2>7, <2>8
<1>3. ASSUME endpoint' = [endpoint EXCEPT ![Client].size = Capacity],
             UNCHANGED <<value, table>>,
             \/ server' = "arm" /\ UNCHANGED <<ec, backlog>>
             \/ /\ ec' = TRUE /\ server' = "take"
                /\ backlog' = backlog \/ (backlog # <<>> /\ backlog' = Tail(backlog))
      PROVE  Inv'
  <2>1. backlog' \in Seq(Peers)
    BY <1>3, HeadWaits DEF TypeOK
  <2>2. TypeOK'
    <3>1. ec' \in BOOLEAN /\ server' \in {"arm", "take"}
      BY <1>3 DEF TypeOK
    <3>2. endpoint' \in [Handles -> [addr : Peers \cup {Local, None}, size : {0, InSize, Capacity}]]
      <4>1. endpoint \in [Handles -> [addr : Peers \cup {Local, None}, size : {0, InSize, Capacity}]]
        BY DEF TypeOK
      <4>2. Client \in Handles /\ Capacity \in {0, InSize, Capacity}
        BY DEF Handles
      <4> HIDE DEF Inv
      <4> QED
        BY <1>3, <4>1, <4>2, SizeTyped
    <3>3. UNCHANGED <<value, table>>
      BY <1>3
    <3> QED
      BY <1>1, <2>1, <3>1, <3>2, <3>3 DEF TypeOK, context
  <2>3. Owned' /\ Kept' /\ Stacked'
    BY <1>1, <1>3 DEF Owned, Kept, Stacked
  <2>4. Places'
    BY <1>1, <1>3 DEF Places, Carries, TypeOK
  <2>5. Waiting'
    BY <1>1, <1>3, WaitingStays, WaitingTaken
  <2> QED
    BY <2>2, <2>3, <2>4, <2>5
<1> QED
  BY <1>2, <1>3 DEF TryAccept

LEMMA SubmitPreserves == ASSUME Inv, Submit PROVE Inv'
<1> USE Names DEF Inv
<1>1. /\ server = "try" /\ platform = "windows"
      /\ UNCHANGED <<platform, context, outcome, value, endpoint, conn, listens, aborted>>
      /\ value[Client] # Invalid /\ value[Param] = Invalid /\ outcome = "none"
      /\ value[Client] \in Descriptors
  BY DEF Submit, Places, TypeOK
<1>2. CASE /\ backlog # <<>> /\ backlog' = Tail(backlog)
           /\ UNCHANGED <<server, table, stack, ec>>
  <2>1. TypeOK'
    BY <1>1, <1>2, HeadWaits DEF TypeOK, context
  <2>2. Waiting'
    BY <1>1, <1>2, WaitingTaken
  <2> QED
    BY <1>1, <1>2, <2>1, <2>2 DEF Owned, Kept, Stacked, Places, Carries
<1>3. CASE /\ backlog # <<>> /\ backlog' = Tail(backlog)
           /\ table' = [table EXCEPT ![value[Client]] = Head(backlog)]
           /\ server' = "take" /\ UNCHANGED <<stack, ec>>
  <2>1. /\ Head(backlog) \in Peers /\ conn[Head(backlog)] = "none"
        /\ Tail(backlog) \in Seq(Peers)
    BY <1>3, HeadWaits
  <2>2. TypeOK'
    BY <1>1, <1>3, <2>1 DEF TypeOK, context
  <2>3. Owned'
    BY <1>1, <1>3, <2>1, Relabels
  <2>4. Kept'
    BY <1>1, <1>3, KeptAside DEF TypeOK, Owned
  <2>5. Stacked'
    BY <1>1, <1>3 DEF Stacked
  <2>6. Places'
    BY <1>1, <1>3, <2>1 DEF Places, Carries, TypeOK
  <2>7. Waiting'
    BY <1>1, <1>3, WaitingTaken DEF TypeOK
  <2> QED
    BY <2>2, <2>3, <2>4, <2>5, <2>6, <2>7
<1>4. CASE /\ UNCHANGED <<table, backlog>>
           /\ \/ server' = "armed" /\ stack' = Front(stack) /\ UNCHANGED ec
              \/ server' = "take" /\ ec' = TRUE /\ UNCHANGED stack
  <2>1. stack' \in {stack, <<>>}
    BY <1>4, OnTop DEF Submit
  <2>2. stack' \in Seq(Peers \cup {Server})
    BY <2>1, Stacks DEF TypeOK
  <2>3. ec' \in BOOLEAN
    BY <1>4, Zenon DEF TypeOK
  <2>4. TypeOK'
    BY <1>1, <1>4, <2>2, <2>3 DEF TypeOK, context
  <2>5. Stacked'
    BY <1>1, <2>1 DEF Stacked
  <2>6. Places'
    BY <1>1, <1>4 DEF Places, Carries
  <2> QED
    BY <1>1, <1>4, <2>4, <2>5, <2>6 DEF Owned, Kept, Waiting
<1> QED
  BY <1>2, <1>3, <1>4 DEF Submit

LEMMA FirePreserves == ASSUME Inv, Fire PROVE Inv'
<1> USE Names DEF Inv
<1>1. /\ server = "armed" /\ server' = "fired" /\ backlog # <<>>
      /\ UNCHANGED <<platform, context, stack, ec, value, endpoint, conn, listens, aborted>>
  BY DEF Fire
<1>2. CASE platform = "posix"
  <2>1. UNCHANGED <<outcome, table, backlog>>
    BY <1>2 DEF Fire
  <2> QED
    BY <1>1, <1>2, <2>1 DEF TypeOK, context, Owned, Kept, Stacked, Places, Carries, Waiting
<1>3. CASE platform # "posix"
  <2>1. /\ value[Client] # Invalid /\ value[Param] = Invalid /\ value[Client] \in Descriptors
    BY <1>1, <1>3 DEF Places, TypeOK
  <2>2. /\ Head(backlog) \in Peers /\ conn[Head(backlog)] = "none"
        /\ Tail(backlog) \in Seq(Peers)
    BY <1>1, HeadWaits
  <2>3. /\ backlog' = Tail(backlog)
        /\ \/ outcome' = "reset" /\ table' = table
           \/ outcome' = "ok" /\ table' = [table EXCEPT ![value[Client]] = Head(backlog)]
    BY <1>3 DEF Fire
  <2>4. TypeOK'
    <3>1. backlog' \in Seq(Peers) /\ outcome' \in {"reset", "ok"} /\ server' = "fired"
      BY <1>1, <2>2, <2>3
    <3>2. table' \in [Descriptors -> Peers \cup {Free, Unused, Listener}]
      BY <2>1, <2>2, <2>3 DEF TypeOK
    <3> QED
      BY <1>1, <3>1, <3>2 DEF TypeOK, context
  <2>5. Owned'
    <3>1. table' = table => Owned'
      BY <1>1 DEF Owned
    <3> QED
      BY <1>1, <2>1, <2>2, <2>3, <3>1, Relabels
  <2>6. Kept'
    BY <1>1, <2>1, <2>3, KeptAside DEF TypeOK, Owned
  <2>7. Stacked'
    BY <1>1 DEF Stacked
  <2>8. Places'
    BY <1>1, <1>3, <2>1, <2>2, <2>3 DEF Places, Carries, TypeOK
  <2>9. Waiting'
    BY <1>1, <2>1, <2>3, WaitingTaken DEF TypeOK
  <2> QED
    BY <2>4, <2>5, <2>6, <2>7, <2>8, <2>9
<1> QED
  BY <1>2, <1>3

LEMMA FireFailsPreserves == ASSUME Inv, FireFails PROVE Inv'
<1> USE Names DEF Inv
<1>1. /\ server = "armed" /\ server' = "fired"
      /\ platform = "windows" /\ outcome' = "failed"
      /\ UNCHANGED <<platform, context, stack, ec, sockets, conn, network>>
  BY DEF FireFails
<1>2. TypeOK'
  BY <1>1 DEF TypeOK, context, sockets, network
<1>3. Places'
  BY <1>1 DEF Places, Carries, sockets
<1> QED
  BY <1>1, <1>2, <1>3 DEF Owned, Kept, Stacked, Waiting, sockets, network

LEMMA ResumePreserves == ASSUME Inv, Resume PROVE Inv'
<1> USE Names DEF Inv
<1>1. /\ server = "resume" /\ outcome' = "none"
      /\ UNCHANGED <<platform, context, stack, value, table, conn, network>>
      /\ ec' = ec \/ (ec' = TRUE /\ server' = "take")
  BY DEF Resume
<1>2. outcome = "ok" => table[value[Client]] \in Peers
  BY DEF Places, Carries
<1>3. endpoint' \in [Handles -> [addr : Peers \cup {Local, None}, size : {0, InSize, Capacity}]]
  BY <1>2 DEF Resume, TypeOK
<1>4. TypeOK'
  BY <1>1, <1>3 DEF Resume, TypeOK, context, network
<1>5. Places'
  BY <1>1 DEF Resume, Places, Carries
<1> QED
  BY <1>1, <1>4, <1>5 DEF Owned, Kept, Stacked, Waiting, network

LEMMA TakePreserves == ASSUME Inv, Take PROVE Inv'
<1> USE Names DEF Inv
<1>1. /\ server = "take" /\ value[Param] = Invalid /\ outcome = "none"
      /\ UNCHANGED <<platform, context, stack, ec, outcome, conn, network>>
  BY DEF Take, Places
<1>2. Stacked'
  BY <1>1 DEF Stacked
<1>3. CASE /\ server' = "unwind" /\ endpoint' = endpoint
           /\ table' = Closed(table, Client)
           /\ value' = [value EXCEPT ![Client] = Invalid]
  <2>1. TypeOK'
    BY <1>1, <1>3 DEF TypeOK, Closed, context, network
  <2>2. Owned'
    BY <1>3, Closes
  <2>3. Kept'
    BY <1>1, <1>3, KeptAside DEF TypeOK, Owned, Closed
  <2>4. Places'
    BY <1>1, <1>3 DEF Places, Carries, TypeOK
  <2>5. Waiting'
    BY <1>1, <1>3, WaitingStays DEF Closed, network
  <2> QED
    BY <1>2, <2>1, <2>2, <2>3, <2>4, <2>5
<1>4. CASE /\ ~ ec /\ server' = "call" /\ table' = table
           /\ value' = MoveConstruct(value, Client, Param)
           /\ endpoint' = [endpoint EXCEPT ![Param] = Copied(endpoint[Client])]
  <2>1. Carries(Client)
    BY <1>1, <1>4 DEF Places
  <2>2. value' = [h \in Handles |-> IF h = Client THEN Invalid
                                    ELSE IF h = Param THEN value[Client] ELSE value[h]]
    BY <1>4 DEF MoveConstruct, TypeOK
  <2>3. TypeOK'
    BY <1>1, <1>4, <2>2 DEF TypeOK, Copied, context, network
  <2>4. Owned'
    BY <1>1, <1>4, Moves
  <2>5. Kept'
    BY <1>1, <1>4, <2>2, KeptAside DEF TypeOK
  <2>6. Places'
    BY <1>1, <1>4, <2>1, <2>2 DEF Places, Carries
  <2>7. Waiting'
    BY <1>1, <1>4 DEF Waiting, network
  <2> QED
    BY <1>2, <2>3, <2>4, <2>5, <2>6, <2>7
<1> QED
  BY <1>3, <1>4 DEF Take

LEMMA CallPreserves == ASSUME Inv, Call PROVE Inv'
<1> USE Names DEF Inv
<1> DEFINE p == table[value[Param]]
<1>1. /\ server = "call" /\ server' = "called" /\ Carries(Param)
      /\ stack = <<Server>> /\ value[Client] = Invalid /\ outcome = "none"
      /\ UNCHANGED <<platform, context, ec, outcome, table, network>>
  BY OnTop DEF Call, Places
<1>2. /\ value' = MoveConstruct(value, Param, p)
      /\ endpoint' = [endpoint EXCEPT ![p] = Copied(endpoint[Param])]
      /\ conn' = [conn EXCEPT ![p] = "running"]
      /\ stack' = Append(stack, p)
  BY DEF Call
<1>3. p \in Peers /\ conn[p] = "none" /\ value[p] = Invalid /\ value[Param] \in Descriptors
  BY <1>1 DEF Carries, Kept
<1> HIDE DEF p
<1>4. value' = [h \in Handles |-> IF h = Param THEN Invalid
                                  ELSE IF h = p THEN value[Param] ELSE value[h]]
  BY <1>2, <1>3 DEF MoveConstruct, TypeOK
<1>5. stack' = <<Server, p>>
  BY <1>1, <1>2, <1>3, Stacks
<1>6. stack' \in Seq(Peers \cup {Server})
  BY <1>2, <1>3, AppendProperties DEF TypeOK
<1>7. TypeOK'
  BY <1>1, <1>2, <1>3, <1>4, <1>6 DEF TypeOK, Copied, context, network
<1>8. Owned'
  BY <1>1, <1>2, <1>3, Moves
<1>9. Kept'
  BY <1>1, <1>2, <1>3, <1>4 DEF Kept, TypeOK, p
<1>10. Stacked'
  BY <1>2, <1>3, <1>5 DEF Stacked, TypeOK
<1>11. Places'
  BY <1>1, <1>3, <1>4 DEF Places
<1>12. Waiting'
  <2>1. \A i \in DOMAIN backlog : backlog[i] # p
    BY <1>3 DEF Waiting, p
  <2> QED
    BY <1>1, <1>2, <2>1 DEF Waiting, network, TypeOK
<1> QED
  BY <1>7, <1>8, <1>9, <1>10, <1>11, <1>12

LEMMA ReturnPreserves == ASSUME Inv, Return PROVE Inv'
<1> USE Names DEF Inv
<1>1. /\ server = "called" /\ server' = "accept"
      /\ UNCHANGED <<platform, context, stack, ec, outcome, endpoint, conn, network>>
      /\ value[Client] = Invalid /\ value[Param] = Invalid /\ outcome = "none"
  BY DEF Return, Places
<1>2. value' = value /\ table' = table
  BY <1>1 DEF Return, Closed, TypeOK
<1>3. TypeOK'
  BY <1>1, <1>2 DEF TypeOK, context, network
<1>4. Places'
  BY <1>1, <1>2 DEF Places
<1> QED
  BY <1>1, <1>2, <1>3, <1>4 DEF Owned, Kept, Stacked, Waiting, network

LEMMA UnwindPreserves == ASSUME Inv, Unwind PROVE Inv'
<1> USE Names DEF Inv
<1>1. /\ server = "unwind" /\ server' = "over" /\ stack' = <<>>
      /\ table' = Closed(table, Listener)
      /\ value' = [value EXCEPT ![Listener] = Invalid]
      /\ UNCHANGED <<platform, main, ec, outcome, endpoint, conn, backlog, aborted>>
      /\ value[Client] = Invalid /\ value[Param] = Invalid /\ outcome = "none"
  BY OnTop DEF Unwind, Places
<1>2. {stop', wake', ec', listens'} \subseteq BOOLEAN
  <2>1. stop' \in BOOLEAN /\ wake' \in BOOLEAN /\ listens' \in BOOLEAN
    BY Zenon DEF Unwind
  <2> QED
    BY <1>1, <2>1 DEF TypeOK
<1>3. TypeOK'
  BY <1>1, <1>2, Stacks DEF TypeOK, Closed
<1>4. Owned'
  BY <1>1, Closes
<1>5. Kept'
  BY <1>1, KeptAside DEF TypeOK, Owned, Closed
<1>6. Places'
  BY <1>1 DEF Places, TypeOK
<1>7. Waiting'
  BY <1>1, WaitingStays DEF Closed
<1> QED
  BY <1>1, <1>3, <1>4, <1>5, <1>6, <1>7 DEF Stacked

-----------------------------------------------------------------------------
(* handle(), and the clients *)

LEMMA HandleWaitsPreserves == ASSUME Inv, NEW p \in Peers, HandleWaits(p) PROVE Inv'
<1> USE Names DEF Inv
<1>1. /\ conn[p] = "running" /\ conn' = [conn EXCEPT ![p] = "waiting"]
      /\ stack' \in {<<>>, <<Server>>}
      /\ UNCHANGED <<platform, context, accept, sockets, network>>
  BY OnTop DEF HandleWaits
<1>2. TypeOK'
  BY <1>1, Stacks DEF TypeOK, context, accept, sockets, network
<1>3. Owned' /\ Stacked'
  BY <1>1 DEF Owned, Stacked, sockets
<1>4. Kept'
  BY <1>1 DEF Kept, TypeOK, sockets
<1>5. Places' /\ Waiting'
  BY <1>1 DEF Places, Carries, Waiting, TypeOK, accept, sockets, network
<1> QED
  BY <1>2, <1>3, <1>4, <1>5

LEMMA HandleEndsPreserves == ASSUME Inv, NEW p \in Peers, HandleEnds(p) PROVE Inv'
<1> USE Names DEF Inv
<1>1. /\ conn[p] = "running" /\ conn' = [conn EXCEPT ![p] = "over"]
      /\ stack' \in {<<>>, <<Server>>}
      /\ table' = Closed(table, p)
      /\ value' = [value EXCEPT ![p] = Invalid]
      /\ UNCHANGED <<platform, context, accept, endpoint, network>>
  BY OnTop DEF HandleEnds
<1>2. value[p] \in Descriptors /\ table[value[p]] = p
  BY <1>1 DEF Kept, TypeOK
<1>3. TypeOK'
  BY <1>1, Stacks DEF TypeOK, Closed, context, accept, network
<1>4. Owned' /\ Stacked'
  BY <1>1, Closes DEF Stacked
<1>5. Kept'
  BY <1>1 DEF Kept, Owned, TypeOK, Closed
<1>6. \A h \in Handles : Carries(h) => Carries(h)'
  BY <1>1, <1>2 DEF Carries, Closed, Owned, TypeOK
<1>7. Places'
  BY <1>1, <1>6 DEF Places, TypeOK, accept
<1>8. Waiting'
  BY <1>1 DEF Waiting, TypeOK, Closed, network
<1> QED
  BY <1>3, <1>4, <1>5, <1>7, <1>8

LEMMA HandleResumedPreserves == ASSUME Inv, NEW p \in Peers, HandleResumed(p) PROVE Inv'
<1> USE Names DEF Inv
<1>1. /\ conn[p] = "waiting" /\ conn' = [conn EXCEPT ![p] = "running"]
      /\ stack' = <<p>>
      /\ UNCHANGED <<platform, context, accept, sockets, network>>
  BY DEF HandleResumed
<1>2. conn'[p] = "running" /\ stack' \in Seq(Peers \cup {Server})
  BY <1>1 DEF TypeOK
<1>3. TypeOK'
  BY <1>1, <1>2 DEF TypeOK, context, accept, sockets, network
<1>4. Owned' /\ Stacked'
  BY <1>1, <1>2 DEF Owned, Stacked, sockets
<1>5. Kept'
  BY <1>1 DEF Kept, TypeOK, sockets
<1>6. Places' /\ Waiting'
  BY <1>1 DEF Places, Carries, Waiting, TypeOK, accept, sockets, network
<1> QED
  BY <1>3, <1>4, <1>5, <1>6

LEMMA ConnectPreserves == ASSUME Inv, NEW p \in Peers, Connect(p) PROVE Inv'
<1> USE Names DEF Inv
<1>1. /\ conn[p] = "none" /\ \A d \in Descriptors : table[d] # p
      /\ backlog' = Append(backlog, p)
      /\ UNCHANGED <<platform, context, stack, accept, sockets, conn, listens, aborted>>
      /\ \A i \in DOMAIN backlog : backlog[i] # p
  BY DEF Connect, ToSet
<1>2. backlog \in Seq(Peers) /\ Len(backlog) \in Nat /\ DOMAIN backlog = 1 .. Len(backlog)
  BY LenProperties DEF TypeOK
<1>3. /\ backlog' \in Seq(Peers) /\ Len(backlog') = Len(backlog) + 1
      /\ \A i \in DOMAIN backlog : backlog'[i] = backlog[i]
      /\ backlog'[Len(backlog) + 1] = p
  BY <1>1, <1>2, AppendProperties
<1>4. DOMAIN backlog' = DOMAIN backlog \cup {Len(backlog) + 1}
  BY <1>2, <1>3, LenProperties
<1>5. TypeOK'
  BY <1>1, <1>3 DEF TypeOK, context, accept, sockets
<1>6. Waiting'
  BY <1>1, <1>3, <1>4 DEF Waiting, sockets
<1> QED
  BY <1>1, <1>5, <1>6 DEF Owned, Kept, Stacked, Places, Carries, accept, sockets

LEMMA AbortPreserves == ASSUME Inv, NEW p \in Peers, Abort(p) PROVE Inv'
<1> USE Names DEF Inv
<1>1. /\ UNCHANGED <<platform, context, stack, accept, sockets, conn, listens>>
      /\ aborted' = aborted \cup {p}
  BY DEF Abort
<1>2. backlog \in Seq(Peers) /\ Len(backlog) \in Nat /\ DOMAIN backlog = 1 .. Len(backlog)
  BY LenProperties DEF TypeOK
<1> DEFINE Embeds ==
             \E f \in [DOMAIN backlog' -> DOMAIN backlog] :
               /\ \A i, j \in DOMAIN backlog' : f[i] = f[j] => i = j
               /\ \A i \in DOMAIN backlog' : backlog'[i] = backlog[f[i]]
<1>3. backlog' \in Seq(Peers) /\ Embeds
  <2>1. CASE backlog' = backlog
    <3>1. [i \in DOMAIN backlog |-> i] \in [DOMAIN backlog -> DOMAIN backlog]
      OBVIOUS
    <3> QED
      BY <1>2, <2>1, <3>1
  <2>2. ASSUME NEW k \in DOMAIN backlog, backlog' = RemoveAt(backlog, k)
        PROVE  backlog' \in Seq(Peers) /\ Embeds
    <3> DEFINE n == Len(backlog)
               s == SubSeq(backlog, 1, k - 1)
               t == SubSeq(backlog, k + 1, n)
               f == [i \in 1 .. n - 1 |-> IF i < k THEN i ELSE i + 1]
    <3>1. \A i \in 1 .. n : backlog[i] \in Peers
      BY <1>2, ElementOfSeq
    <3>2. /\ s \in Seq(Peers) /\ Len(s) = k - 1
          /\ \A i \in 1 .. k - 1 : s[i] = backlog[i]
      BY <1>2, <3>1, SubSeqProperties
    <3>3. /\ t \in Seq(Peers) /\ Len(t) = n - k
          /\ \A i \in 1 .. n - k : t[i] = backlog[i + k]
      BY <1>2, <3>1, SubSeqProperties
    <3>4. backlog' = s \o t
      BY <2>2 DEF RemoveAt
    <3> HIDE DEF s, t
    <3> DEFINE m == k - 1
    <3>5. /\ backlog' \in Seq(Peers) /\ Len(backlog') = m + (n - k)
          /\ \A i \in 1 .. m + (n - k) : backlog'[i] = IF i <= m THEN s[i] ELSE t[i - m]
      <4>1. Len(s) = m /\ Len(t) = n - k /\ s \in Seq(Peers) /\ t \in Seq(Peers)
        BY <3>2, <3>3
      <4> HIDE DEF m
      <4> QED
        BY <3>4, <4>1, ConcatProperties
    <3>6. /\ backlog' \in Seq(Peers) /\ Len(backlog') = n - 1
          /\ \A i \in 1 .. n - 1 : backlog'[i] = IF i < k THEN s[i] ELSE t[i - m]
      BY <1>2, <3>5
    <3>7. DOMAIN backlog' = 1 .. n - 1
      BY <3>6, LenProperties
    <3>8. f \in [1 .. n - 1 -> 1 .. n]
      BY <1>2
    <3>9. \A i, j \in 1 .. n - 1 : f[i] = f[j] => i = j
      BY <1>2
    <3>10. \A i \in 1 .. n - 1 : backlog'[i] = backlog[f[i]]
      <4> TAKE i \in 1 .. n - 1
      <4>1. CASE i < k
        BY <1>2, <3>2, <3>6, <4>1
      <4>2. CASE i >= k
        <5>1. i - m \in 1 .. n - k /\ (i - m) + k = i + 1
          BY <1>2, <4>2
        <5>2. backlog'[i] = t[i - m]
          BY <1>2, <3>6, <4>2
        <5>3. \A j \in 1 .. n - k : j + k = i + 1 => t[j] = backlog[i + 1]
          BY <3>3
        <5>4. t[i - m] = backlog[i + 1]
          BY <5>1, <5>3
        <5> QED
          BY <1>2, <4>2, <5>2, <5>4
      <4> QED
        BY <1>2, <4>1, <4>2
    <3> HIDE DEF f
    <3>11. DOMAIN backlog = 1 .. n
      BY <1>2
    <3>12. /\ f \in [DOMAIN backlog' -> DOMAIN backlog]
           /\ \A i, j \in DOMAIN backlog' : f[i] = f[j] => i = j
           /\ \A i \in DOMAIN backlog' : backlog'[i] = backlog[f[i]]
      BY <3>7, <3>8, <3>9, <3>10, <3>11, Zenon
    <3> QED
      BY <3>6, <3>12, Zenon
  <2> QED
    BY <2>1, <2>2 DEF Abort
<1>4. TypeOK'
  BY <1>1, <1>3 DEF TypeOK, context, accept, sockets
<1>5. Waiting'
  BY <1>1, <1>3 DEF Waiting, sockets
<1> QED
  BY <1>1, <1>4, <1>5 DEF Owned, Kept, Stacked, Places, Carries, accept, sockets

-----------------------------------------------------------------------------
LEMMA InitInv == Init => Inv
<1> SUFFICES ASSUME Init PROVE Inv
  OBVIOUS
<1> USE Names
<1>1. /\ stack \in Seq(Peers \cup {Server}) /\ backlog \in Seq(Peers)
      /\ DOMAIN backlog = {}
  BY Stacks, EmptySeq DEF Init
<1>2. TypeOK
  BY <1>1 DEF Init, TypeOK, NoEndpoint
<1>3. Owned /\ Kept
  BY DEF Init, Owned, Kept
<1>4. Stacked /\ Places /\ Waiting
  BY <1>1 DEF Init, Stacked, Places, Waiting
<1> QED
  BY <1>2, <1>3, <1>4 DEF Inv

LEMMA StepInv == Inv /\ [Next]_vars => Inv'
<1> SUFFICES ASSUME Inv, [Next]_vars PROVE Inv'
  OBVIOUS
<1>1. CASE UNCHANGED vars
  BY <1>1 DEF vars, context, accept, sockets, network, Inv, TypeOK, Owned, Kept, Stacked, Places,
              Carries, Waiting
<1>2. ASSUME NEW p \in Peers,
             \/ HandleWaits(p) \/ HandleEnds(p) \/ HandleResumed(p)
             \/ Connect(p) \/ Abort(p)
      PROVE  Inv'
  BY <1>2, HandleWaitsPreserves, HandleEndsPreserves, HandleResumedPreserves,
     ConnectPreserves, AbortPreserves
<1>3. CASE ServerStep
  BY <1>3, CreatePreserves, QuietPreserves, AcceptPreserves, TryAcceptPreserves, SubmitPreserves,
     ResumePreserves, TakePreserves, CallPreserves, ReturnPreserves, UnwindPreserves
     DEF ServerStep
<1> QED
  BY <1>1, <1>2, <1>3, FirePreserves, FireFailsPreserves, QuietPreserves DEF Next, ThreadStep

LEMMA Invariance == Spec => []Inv
<1> QED
  BY InitInv, StepInv, PTL DEF Spec

(* main.cpp 56-78, tcp/socket.h 36-69: the places of server() and main(),  *)
(* and the members of the accept operation.                                *)
THEOREM TypeCorrect == Spec => []TypeOK
<1>1. Inv => TypeOK
  BY DEF Inv
<1> QED
  BY <1>1, Invariance, PTL

(* Whatever fails between accept4 or AcceptEx and handle()'s frame, each   *)
(* open descriptor is owned by exactly one handle, and each live           *)
(* connection holds its own (handle.h 130-172, main.cpp:64).               *)
THEOREM OwnedByOne == Spec => []OwnedOnce
<1>1. Inv => OwnedOnce
  BY OwnedIsOnce DEF Inv
<1> QED
  BY <1>1, Invariance, PTL

-----------------------------------------------------------------------------
(* A connection is closed by its handle(). *)

(* What the handles of server() and of the operation have while no client  *)
(* has been accepted, and that an operation that goes on has not failed.   *)
Labelled ==
  /\ server \in {"try", "arm", "armed", "fired", "resume"} => ~ ec
  /\ value[Listener] # Invalid => table[value[Listener]] = Listener
  /\ /\ value[Client] # Invalid
     /\ \/ server \in {"try", "armed"}
        \/ server \in {"fired", "resume"} /\ outcome # "ok"
        \/ server = "take" /\ ec
     => table[value[Client]] = Unused

(* From accept4 or AcceptEx on, the descriptor of a client is the client's *)
(* until its own handle() ends: none of the closes on the way into the     *)
(* frame, no failed operation and no other connection takes it away, and   *)
(* the client is not handled a second time (handle.h 130-172,              *)
(* main.cpp 31-64).                                                        *)
Serves ==
  /\ \A d \in Descriptors :
       table[d] \in Peers /\ table'[d] # table[d] =>
         conn[table[d]] = "running" /\ conn'[table[d]] = "over"
  /\ \A p \in Peers : conn[p] = "over" => conn'[p] = "over"

LEMMA LabelledInit == Init => Labelled
BY Names DEF Init, Labelled

LEMMA LabelledStep == Inv /\ Labelled /\ [Next]_vars => Labelled' /\ Serves
<1> SUFFICES ASSUME Inv, Labelled, [Next]_vars PROVE Labelled' /\ Serves
  OBVIOUS
<1> USE Names
<1>1. /\ value \in [Handles -> Descriptors \cup {Invalid}]
      /\ table \in [Descriptors -> Peers \cup {Free, Unused, Listener}]
      /\ conn \in [Peers -> {"none", "running", "waiting", "over"}]
      /\ Listener \in Handles /\ Client \in Handles /\ Param \in Handles
      /\ Peers \subseteq Handles
  BY DEF Inv, TypeOK, Handles
<1>2. \A g, h \in Handles : value[g] # Invalid /\ value[g] = value[h] => g = h
  BY DEF Inv, Owned
<1>3. CASE Create
  <2>1. /\ value[Listener] = Invalid /\ conn' = conn
        /\ server' \notin {"try", "arm", "armed", "fired", "resume", "take"}
    BY <1>3 DEF Create, Inv, Places
  <2>2. CASE UNCHANGED <<value, table>>
    BY <2>1, <2>2 DEF Labelled, Serves
  <2>3. ASSUME NEW d \in Descriptors, table[d] = Free,
               value' = [value EXCEPT ![Listener] = d],
               table' = [table EXCEPT ![d] = Listener]
        PROVE  Labelled' /\ Serves
    <3>1. value'[Listener] = d /\ table'[d] = Listener
      BY <1>1, <2>3
    <3>2. \A x \in Descriptors : x # d => table'[x] = table[x]
      BY <1>1, <2>3
    <3> QED  BY <2>1, <2>3, <3>1, <3>2 DEF Labelled, Serves
  <2> QED  BY <1>3, <2>2, <2>3 DEF Create, FreeDescriptors
<1>4. CASE Bind \/ Listen \/ Arm \/ Dispatch \/ Run \/ Interrupted
  <2>1. UNCHANGED <<value, table, conn, outcome, ec>>
    BY <1>4 DEF Bind, Listen, Arm, Dispatch, Run, Interrupted, sockets, accept
  <2>2. \/ server' = server
        \/ server' \in {"unwind", "listen", "accept"}
        \/ /\ server \in {"arm", "fired"} /\ server' \in {"armed", "try"}
           /\ value[Client] = Invalid
        \/ server = "fired" /\ server' = "resume"
    BY <1>4 DEF Bind, Listen, Arm, Dispatch, Run, Interrupted, accept, Inv, Places
  <2> QED  BY <2>1, <2>2 DEF Labelled, Serves
<1>5. CASE Accept
  <2>1. value[Client] = Invalid /\ conn' = conn /\ ~ ec'
    BY <1>5 DEF Accept, Inv, Places
  <2>2. CASE UNCHANGED <<value, table>>
    BY <2>1, <2>2 DEF Labelled, Serves
  <2>3. ASSUME NEW d \in Descriptors, table[d] = Free,
               value' = [value EXCEPT ![Client] = d],
               table' = [table EXCEPT ![d] = Unused]
        PROVE  Labelled' /\ Serves
    <3>1. value'[Client] = d /\ table'[d] = Unused /\ value'[Listener] = value[Listener]
      BY <1>1, <2>3
    <3>2. \A x \in Descriptors : x # d => table'[x] = table[x]
      BY <1>1, <2>3
    <3>3. value[Listener] # d
      BY <2>3 DEF Inv, Owned, Handles
    <3>4. value'[Listener] # Invalid => table'[value'[Listener]] = Listener
      BY <1>1, <3>1, <3>2, <3>3 DEF Labelled
    <3> QED  BY <2>1, <2>3, <3>1, <3>2, <3>4 DEF Labelled, Serves
  <2> QED  BY <1>5, <2>2, <2>3 DEF Accept, FreeDescriptors
<1>6. CASE TryAccept
  <2>1. /\ value[Client] = Invalid /\ conn' = conn /\ ~ ec
        /\ server' = "take" \/ (server' = "arm" /\ ec' = ec)
    BY <1>6 DEF TryAccept, Inv, Places, Labelled
  <2>2. CASE UNCHANGED <<value, table>>
    BY <2>1, <2>2 DEF Labelled, Serves
  <2>3. ASSUME NEW d \in Descriptors, table[d] = Free,
               value' = [value EXCEPT ![Client] = d],
               table' = [Closed(table, Client) EXCEPT ![d] = Head(backlog)],
               server' = "take", ec' = ec
        PROVE  Labelled' /\ Serves
    <3>1. Closed(table, Client) = table
      BY <1>1, <2>1 DEF Closed
    <3>2. value'[Listener] = value[Listener]
          /\ \A x \in Descriptors : x # d => table'[x] = table[x]
      BY <1>1, <2>3, <3>1
    <3>3. value[Listener] # d
      BY <2>3 DEF Inv, Owned, Handles
    <3>4. value'[Listener] # Invalid => table'[value'[Listener]] = Listener
      BY <1>1, <3>2, <3>3 DEF Labelled
    <3> QED  BY <2>1, <2>3, <3>2, <3>4 DEF Labelled, Serves
  <2> QED  BY <1>6, <2>2, <2>3 DEF TryAccept, FreeDescriptors
<1>7. CASE Submit
  <2>1. /\ server = "try" /\ platform = "windows" /\ value[Client] # Invalid
        /\ UNCHANGED <<value, conn, outcome>> /\ ~ ec
        /\ table[value[Client]] = Unused
    BY <1>7 DEF Submit, Inv, Places, Labelled
  <2>2. CASE UNCHANGED table
    BY <1>7, <2>1, <2>2 DEF Submit, Labelled, Serves
  <2>3. CASE table' = [table EXCEPT ![value[Client]] = Head(backlog)] /\ server' = "take" /\ ec' = ec
    <3>1. value[Listener] # value[Client]
      BY <1>1, <1>2, <2>1
    <3>2. \A x \in Descriptors : x # value[Client] => table'[x] = table[x]
      BY <1>1, <2>3
    <3>3. value'[Listener] # Invalid => table'[value'[Listener]] = Listener
      BY <1>1, <2>1, <3>1, <3>2 DEF Labelled
    <3> QED  BY <2>1, <2>3, <3>2, <3>3 DEF Labelled, Serves
  <2> QED  BY <1>7, <2>2, <2>3 DEF Submit
<1>8. CASE Fire
  <2>1. server = "armed" /\ server' = "fired" /\ UNCHANGED <<value, conn, ec>>
    BY <1>8 DEF Fire
  <2>2. CASE platform = "posix" \/ UNCHANGED table
    <3>1. UNCHANGED table
      BY <1>8, <2>2 DEF Fire
    <3> QED  BY <2>1, <3>1 DEF Labelled, Serves
  <2>3. CASE /\ platform = "windows" /\ outcome' = "ok"
             /\ table' = [table EXCEPT ![value[Client]] = Head(backlog)]
    <3>1. value[Client] # Invalid /\ table[value[Client]] = Unused
      BY <2>1, <2>3 DEF Inv, Places, Labelled
    <3>2. value[Listener] # value[Client]
      BY <1>1, <1>2, <3>1
    <3>3. \A x \in Descriptors : x # value[Client] => table'[x] = table[x]
      BY <1>1, <2>3
    <3>4. value'[Listener] # Invalid => table'[value'[Listener]] = Listener
      BY <1>1, <2>1, <3>2, <3>3 DEF Labelled
    <3> QED  BY <2>1, <2>3, <3>1, <3>3, <3>4 DEF Labelled, Serves
  <2> QED  BY <1>8, <2>2, <2>3 DEF Fire, Inv, TypeOK
<1>9. CASE Resume
  <2>1. /\ server = "resume" /\ UNCHANGED <<value, table, conn>>
        /\ \/ outcome = "reset" /\ server' = "try" /\ ec' = ec
           \/ outcome = "failed" /\ server' = "take"
           \/ outcome = "ok" /\ server' = "take" /\ ec' = ec
    BY <1>9 DEF Resume
  <2> QED  BY <2>1 DEF Labelled, Serves
<1>10. CASE Take
  <2>1. server = "take" /\ conn' = conn /\ ec' = ec
    BY <1>10 DEF Take
  <2>2. CASE ec
    <3>1. /\ server' = "unwind" /\ table' = Closed(table, Client)
          /\ value' = [value EXCEPT ![Client] = Invalid]
      BY <1>10, <2>2 DEF Take
    <3>2. value[Client] # Invalid => table[value[Client]] = Unused
      BY <2>1, <2>2 DEF Labelled
    <3>3. \A x \in Descriptors : x # value[Client] => table'[x] = table[x]
      BY <3>1 DEF Closed
    <3>4. value'[Client] = Invalid /\ value'[Listener] = value[Listener]
      BY <1>1, <3>1
    <3>5. value'[Listener] # Invalid => table'[value'[Listener]] = Listener
      BY <1>1, <1>2, <3>3, <3>4 DEF Labelled
    <3> QED  BY <1>1, <2>1, <3>1, <3>2, <3>3, <3>4, <3>5 DEF Labelled, Serves
  <2>3. CASE ~ ec
    <3>1. /\ server' = "call" /\ table' = table
          /\ value' = [value EXCEPT ![Param] = value[Client], ![Client] = Invalid]
      BY <1>10, <2>3 DEF Take, MoveConstruct
    <3>2. value'[Listener] = value[Listener]
      BY <1>1, <3>1
    <3> QED  BY <2>1, <3>1, <3>2 DEF Labelled, Serves
  <2> QED  BY <2>2, <2>3
<1>11. CASE Call
  <2> DEFINE p == table[value[Param]]
  <2>1. Carries(Param) /\ server' = "called" /\ table' = table
        /\ conn' = [conn EXCEPT ![p] = "running"]
        /\ value' = [value EXCEPT ![p] = value[Param], ![Param] = Invalid]
    BY <1>11 DEF Call, Inv, Places, MoveConstruct
  <2>2. p \in Peers /\ conn[p] = "none"
    BY <2>1 DEF Carries
  <2> HIDE DEF p
  <2>3. value'[Listener] = value[Listener]
    BY <1>1, <2>1, <2>2
  <2>4. \A q \in Peers : conn[q] = "over" => conn'[q] = "over"
    BY <1>1, <2>1, <2>2
  <2> QED  BY <2>1, <2>3, <2>4 DEF Labelled, Serves
<1>12. CASE Return
  <2>1. value[Client] = Invalid /\ value[Param] = Invalid /\ conn' = conn /\ server' = "accept"
        /\ table' = Closed(Closed(table, Client), Param)
        /\ value' = [value EXCEPT ![Client] = Invalid, ![Param] = Invalid]
    BY <1>12 DEF Return, Inv, Places
  <2>2. \A x \in Descriptors : table'[x] = table[x]
    BY <2>1 DEF Closed
  <2>3. value'[Listener] = value[Listener]
    BY <1>1, <2>1
  <2> QED  BY <1>1, <2>1, <2>2, <2>3 DEF Labelled, Serves
<1>13. CASE Unwind
  <2>1. /\ conn' = conn /\ server' = "over" /\ table' = Closed(table, Listener)
        /\ value' = [value EXCEPT ![Listener] = Invalid]
    BY <1>13 DEF Unwind
  <2>2. \A x \in Descriptors : x # value[Listener] => table'[x] = table[x]
    BY <2>1 DEF Closed
  <2>3. value'[Listener] = Invalid
    BY <1>1, <2>1
  <2> QED  BY <1>1, <2>1, <2>2, <2>3 DEF Labelled, Serves
<1>14. ASSUME NEW p \in Peers, HandleWaits(p) \/ HandleResumed(p) PROVE Labelled' /\ Serves
  <2>1. /\ UNCHANGED <<value, table, server, outcome, ec>>
        /\ \E x : conn' = [conn EXCEPT ![p] = x]
        /\ conn[p] # "over"
    BY <1>14, OnTop DEF HandleWaits, HandleResumed, sockets, accept, Inv
  <2>2. \A q \in Peers : conn[q] = "over" => conn'[q] = "over"
    BY <1>1, <2>1
  <2> QED  BY <2>1, <2>2 DEF Labelled, Serves
<1>15. ASSUME NEW p \in Peers, HandleEnds(p) PROVE Labelled' /\ Serves
  <2>1. /\ conn[p] = "running" /\ UNCHANGED <<server, outcome, ec>>
        /\ conn' = [conn EXCEPT ![p] = "over"] /\ table' = Closed(table, p)
        /\ value' = [value EXCEPT ![p] = Invalid]
    BY <1>15, OnTop DEF HandleEnds, accept, Inv
  <2>2. value[p] # Invalid /\ table[value[p]] = p
    BY <2>1 DEF Inv, Kept
  <2>3. \A x \in Descriptors : x # value[p] => table'[x] = table[x]
    BY <2>1 DEF Closed
  <2>4. /\ conn'[p] = "over" /\ \A q \in Peers : q # p => conn'[q] = conn[q]
        /\ value'[Listener] = value[Listener] /\ value'[Client] = value[Client]
    BY <1>1, <2>1
  <2>5. Serves
    BY <2>1, <2>2, <2>3, <2>4 DEF Serves
  <2>6. \A h \in {Listener, Client} :
          value[h] # Invalid => table'[value[h]] = table[value[h]]
    BY <1>1, <1>2, <2>3
  <2>7. Labelled'
    BY <2>1, <2>4, <2>6 DEF Labelled
  <2> QED  BY <2>5, <2>7
<1>16. CASE FireFails
  <2>1. /\ server = "armed" /\ server' = "fired" /\ outcome' = "failed"
        /\ UNCHANGED <<value, table, conn, ec>>
    BY <1>16 DEF FireFails, sockets
  <2> QED  BY <2>1 DEF Labelled, Serves
<1>17. CASE UNCHANGED vars \/ \E p \in Peers : Connect(p) \/ Abort(p)
  <2>1. UNCHANGED <<value, table, server, outcome, ec, conn>>
    BY <1>17 DEF Connect, Abort, vars, sockets, accept
  <2> QED  BY <2>1 DEF Labelled, Serves
<1> QED
  BY <1>3, <1>4, <1>5, <1>6, <1>7, <1>8, <1>9, <1>10, <1>11, <1>12, <1>13, <1>14, <1>15, <1>16,
     <1>17
     DEF Next, ThreadStep, ServerStep

(* An accepted connection stays open, and its own, until its handle() ends *)
(* (main.cpp 31-64).                                                       *)
THEOREM ClosedByItsHandle == Spec => [][Serves]_vars
<1>1. Spec => []Labelled
  BY LabelledInit, LabelledStep, Invariance, PTL DEF Spec
<1>2. Inv /\ Labelled /\ [Next]_vars => [Serves]_vars
  BY LabelledStep
<1> QED
  BY <1>1, <1>2, Invariance, PTL DEF Spec

-----------------------------------------------------------------------------
(* The program does not fall asleep. *)

Parked == {"armed", "fired", "over"}

(* Where server() is while it is on the thread, below a handle() that it   *)
(* called, or away; a handle() that runs is on the thread; and what the    *)
(* end of server() leaves for run().                                       *)
Thread ==
  /\ stack = <<>> => server \in Parked \/ main = "terminated"
  /\ stack = <<Server>> => server \notin Parked
  /\ \A p \in Peers :
       /\ stack = <<p>> => server \in Parked
       /\ stack = <<Server, p>> => server = "called"
       /\ conn[p] = "running" => stack \in {<<p>>, <<Server, p>>}
  /\ server = "over" <=> stop
  /\ stop => wake \/ main = "returned"

(* When the thread comes back from the coroutines, server() waits for a    *)
(* connection, or has ended and its stop() is not forgotten: the interrupt *)
(* is still to be seen, or run() has returned.  And a handle() that has    *)
(* not suspended has the thread (main.cpp 56-78).                          *)
NeverAsleep ==
  /\ stack = <<>> /\ main # "terminated" =>
       \/ server \in {"armed", "fired"}
       \/ server = "over" /\ stop /\ (wake \/ main = "returned")
  /\ \A p \in Peers : conn[p] = "running" => Runs(p)

LEMMA ThreadOf ==
  ASSUME Stacked
  PROVE  /\ Runs(Server) => stack = <<Server>> /\ Front(stack) = <<>>
         /\ \A p \in Peers : Runs(p) =>
              \/ stack = <<p>> /\ Front(stack) = <<>>
              \/ stack = <<Server, p>> /\ Front(stack) = <<Server>>
         /\ \A p \in Peers : stack \in {<<p>>, <<Server, p>>} => Runs(p)
<1>1. ASSUME NEW s PROVE Last(<<s>>) = s /\ Front(<<s>>) = <<>>
  BY SubSeqEmpty DEF Last, Front
<1>2. ASSUME NEW s, NEW t PROVE Last(<<s, t>>) = t /\ Front(<<s, t>>) = <<s>>
  <2> DEFINE b == SubSeq(<<s, t>>, 1, 1)
  <2>1. b \in Seq({s, t}) /\ Len(b) = 1 /\ b[1] = s
    BY SubSeqProperties
  <2>2. b = <<s>>
    <3> HIDE DEF b
    <3> QED
      BY <2>1, SeqEqual
  <2> QED
    BY <2>2 DEF Last, Front
<1> QED
  BY <1>1, <1>2, Names DEF Stacked, Runs

LEMMA ThreadStays ==
  ASSUME Inv, Thread, NEW at, Runs(Server), at \notin Parked, server' = at,
         UNCHANGED <<stack, conn, stop, wake, main>>
  PROVE  Thread'
<1>1. stack = <<Server>>
  BY ThreadOf DEF Inv
<1> QED
  BY <1>1, Names DEF Thread, Parked

LEMMA ServerStepThread == ASSUME Inv, Thread, ServerStep PROVE Thread'
<1> USE Names
<1>1. Runs(Server) /\ stack = <<Server>> /\ Front(stack) = <<>>
  <2>1. Runs(Server)
    BY DEF ServerStep, Create, Bind, Listen, Accept, TryAccept, Arm, Submit, Resume, Take, Call,
           Return, Unwind
  <2> QED
    BY <2>1, ThreadOf DEF Inv
<1>2. ~ stop /\ \A p \in Peers : conn[p] # "running"
  BY <1>1 DEF Thread, Parked
<1>3. CASE Create \/ Bind \/ Listen \/ TryAccept \/ Resume \/ Take \/ Return
  <2>1. server' \notin Parked /\ UNCHANGED <<stack, conn, stop, wake, main>>
    BY <1>3 DEF Create, Bind, Listen, TryAccept, Resume, Take, Return, Parked, context
  <2> QED
    BY <1>1, <2>1, ThreadStays
<1>4. CASE Accept
  <2>1. CASE main' = "terminated" /\ stack' = <<>>
    <3>1. server' \in {"accept", "try"} /\ UNCHANGED <<conn, stop, wake>>
      BY <1>4 DEF Accept
    <3>2. \A p \in Peers : stack' \notin {<<Server>>, <<p>>, <<Server, p>>}
      BY <2>1
    <3> QED
      BY <1>2, <2>1, <3>1, <3>2 DEF Thread
  <2>2. CASE server' = "try" /\ UNCHANGED <<main, stack>>
    <3>1. server' \notin Parked /\ UNCHANGED <<stack, conn, stop, wake, main>>
      BY <1>4, <2>2 DEF Accept, Parked
    <3> QED
      BY <1>1, <3>1, ThreadStays
  <2> QED
    BY <1>4, <2>1, <2>2 DEF Accept
<1>5. CASE Arm \/ Submit
  <2>1. CASE server' \notin Parked /\ stack' = stack
    <3>1. UNCHANGED <<conn, stop, wake, main>>
      BY <1>5 DEF Arm, Submit, context
    <3> QED
      BY <1>1, <2>1, <3>1, ThreadStays
  <2>2. CASE server' = "armed" /\ stack' = <<>>
    <3>1. UNCHANGED <<conn, stop, wake, main>>
      BY <1>5 DEF Arm, Submit, context
    <3> QED
      BY <1>2, <2>2, <3>1 DEF Thread, Parked
  <2> QED
    BY <1>1, <1>5, <2>1, <2>2 DEF Arm, Submit, Parked
<1>6. CASE Call
  <2> DEFINE p == table[value[Param]]
  <2>1. /\ server' = "called" /\ UNCHANGED <<stop, wake, main>>
        /\ conn' = [conn EXCEPT ![p] = "running"] /\ stack' = Append(stack, p)
    BY <1>6 DEF Call, context
  <2>2. p \in Peers
    BY <1>6 DEF Call, Inv, Places, Carries
  <2> HIDE DEF p
  <2>3. stack' = <<Server, p>>
    BY <1>1, <2>1, <2>2, Stacks
  <2>4. \A q \in Peers : conn'[q] = "running" => q = p
    BY <1>2, <2>1 DEF Inv, TypeOK
  <2> QED
    BY <1>2, <2>1, <2>2, <2>3, <2>4 DEF Thread
<1>7. CASE Unwind
  <2>1. server' = "over" /\ stop' /\ wake' /\ stack' = <<>> /\ conn' = conn
    BY <1>1, <1>7 DEF Unwind
  <2> QED
    BY <1>2, <2>1 DEF Thread, Parked
<1> QED
  BY <1>3, <1>4, <1>5, <1>6, <1>7 DEF ServerStep

LEMMA ThreadInvariant == Inv /\ Thread /\ [Next]_vars => Thread'
<1> SUFFICES ASSUME Inv, Thread, [Next]_vars PROVE Thread'
  OBVIOUS
<1> USE Names
<1>1. CASE Fire \/ FireFails
  <2>1. /\ server = "armed" /\ server' = "fired"
        /\ UNCHANGED <<stack, conn, stop, wake, main>>
    BY <1>1 DEF Fire, FireFails, context
  <2> QED
    BY <2>1 DEF Thread, Parked
<1>2. CASE Dispatch
  <2>1. /\ stack = <<>> /\ stack' = <<Server>>
        /\ server = "fired" /\ server' \in {"try", "resume"}
        /\ UNCHANGED <<conn, stop, wake, main>>
    BY <1>2 DEF Dispatch, context
  <2>2. ~ stop /\ \A p \in Peers : conn[p] # "running"
    BY <2>1 DEF Thread
  <2> QED
    BY <2>1, <2>2 DEF Thread, Parked
<1>3. CASE Run \/ Interrupted
  <2>1. UNCHANGED <<server, stack, conn, stop>> /\ main # "terminated"
        /\ (stop' => wake' \/ main' = "returned")
    BY <1>3 DEF Run, Interrupted, accept, Thread
  <2> QED
    BY <2>1 DEF Thread
<1>4. ASSUME NEW p \in Peers, HandleWaits(p) \/ HandleEnds(p) PROVE Thread'
  <2>1. /\ Runs(p) /\ stack' = Front(stack) /\ UNCHANGED <<server, stop, wake, main>>
        /\ \E x \in {"waiting", "over"} : conn' = [conn EXCEPT ![p] = x]
    BY <1>4 DEF HandleWaits, HandleEnds, accept, context
  <2>2. \/ stack = <<p>> /\ stack' = <<>>
        \/ stack = <<Server, p>> /\ stack' = <<Server>>
    BY <2>1, ThreadOf DEF Inv
  <2>3. \A q \in Peers : conn'[q] # "running"
    BY <2>1, <2>2 DEF Inv, TypeOK, Thread
  <2> QED
    BY <2>1, <2>2, <2>3 DEF Thread, Parked
<1>5. ASSUME NEW p \in Peers, HandleResumed(p) PROVE Thread'
  <2>1. /\ stack = <<>> /\ main = "run" /\ stack' = <<p>>
        /\ conn' = [conn EXCEPT ![p] = "running"]
        /\ UNCHANGED <<server, stop, wake, main>>
    BY <1>5 DEF HandleResumed, accept, context
  <2>2. server \in Parked
    BY <2>1 DEF Thread
  <2>3. \A q \in Peers : conn'[q] = "running" => q = p
    BY <2>1 DEF Thread, Inv, TypeOK
  <2> QED
    BY <2>1, <2>2, <2>3 DEF Thread
<1>6. CASE UNCHANGED vars \/ \E p \in Peers : Connect(p) \/ Abort(p)
  <2>1. UNCHANGED <<stack, server, conn, stop, wake, main>>
    BY <1>6 DEF Connect, Abort, vars, accept, context
  <2> QED
    BY <2>1 DEF Thread
<1> QED
  BY <1>1, <1>2, <1>3, <1>4, <1>5, <1>6, ServerStepThread DEF Next, ThreadStep

(* server() gives the thread back only while it waits in accept or at its  *)
(* end, and its end always reaches run(), also before run() is entered:    *)
(* no state of the program waits for nothing (main.cpp 56-78).             *)
THEOREM ServerNeverAsleep == Spec => []NeverAsleep
<1>1. Init => Thread
  BY Names DEF Init, Thread, Parked
<1>2. Inv /\ Thread => NeverAsleep
  BY ThreadOf DEF Inv, Thread, Parked, NeverAsleep
<1> QED
  BY <1>1, <1>2, ThreadInvariant, Invariance, PTL DEF Spec

=============================================================================

---------------------------- MODULE ConnTableProofs ----------------------------
(***************************************************************************)
(* For any sockets and any size of the array: its variables keep their     *)
(* types, and while no append and no removal have overlapped it lists the  *)
(* open connections, each once, and recv is called only where there is     *)
(* something to read.                                                      *)
(***************************************************************************)
EXTENDS ConnTable, FunctionTheorems, FiniteSetTheorems, TLAPS

AccepterType == [at : {"accept", "append", "store"}, socket : Socket \cup {NULL},
                 n : Slot, todo : SUBSET {"slot", "total"}]
WorkerType == [at : {"collect", "select", "serve", "remove", "move"}, i : 0..Capacity,
               n : 0..Capacity, todo : SUBSET {"slot", "total"}]

(* The parts of the type invariant, with what the place of a thread says   *)
(* of what it holds.                                                       *)
ClientTypes == conn \in [Socket -> Conn] /\ pending \in [Socket -> BOOLEAN]
TableTypes == arr \in [Slot -> Socket \cup {NULL}] /\ total \in 0..Capacity
AccepterTypes ==
    /\ accepter \in AccepterType
    /\ accepter.at = "store" <=> accepter.todo # {}
    /\ accepter.at # "accept" => accepter.socket \in Socket
WorkerTypes ==
    /\ worker \in WorkerType
    /\ worker.at = "move" <=> worker.todo # {}
    /\ worker.at \in {"remove", "move"} => worker.i < Capacity
    /\ worker.at = "move" => worker.n < Capacity
RemovesSomething == worker.at = "remove" => total > 0
RestTypes ==
    /\ fdread \in SUBSET (Socket \cup {NULL})
    /\ upset \in SUBSET Upset
    /\ overrun \in BOOLEAN

TypeInv ==
    ClientTypes /\ TableTypes /\ AccepterTypes /\ WorkerTypes /\ RemovesSomething /\ RestTypes

-------------------------------------------------------------------------------
(* The empty array. *)
LEMMA TypeInit == Init => TypeInv
<1> SUFFICES ASSUME Init
             PROVE  TypeInv
  OBVIOUS
<1> USE ConnAssumption DEF Init
<1>1. ClientTypes
  BY DEF ClientTypes, Conn
<1>2. TableTypes
  BY DEF TableTypes, Slot
<1>3. AccepterTypes
  BY DEF AccepterTypes, AccepterType, Slot
<1>4. WorkerTypes /\ RemovesSomething
  BY DEF WorkerTypes, WorkerType, RemovesSomething
<1>5. RestTypes
  BY DEF RestTypes, Upset
<1> QED
  BY <1>1, <1>2, <1>3, <1>4, <1>5 DEF TypeInv

(* Noting what happened keeps the history a set of such things. *)
LEMMA NoteTypes ==
    ASSUME upset \in SUBSET Upset, NEW what \in Upset, NEW happened, Note(what, happened)
    PROVE  upset' \in SUBSET Upset
BY DEF Note

(* The second of the two stores ends the append, the first one does not. *)
LEMMA StoredTypes ==
    ASSUME AccepterTypes, NEW what \in {"slot", "total"}, what \in accepter.todo, Stored(what),
           0 \in Slot
    PROVE  AccepterTypes'
<1> USE DEF AccepterTypes, AccepterType
<1>1. CASE accepter.todo = {what}
  <2>1. accepter' = [at |-> "accept", socket |-> NULL, n |-> 0, todo |-> {}]
    BY <1>1 DEF Stored
  <2> QED
    BY <2>1
<1>2. CASE accepter.todo # {what}
  <2>1. accepter' = [accepter EXCEPT !.todo = accepter.todo \ {what}]
    BY <1>2 DEF Stored
  <2>2. accepter.todo \ {what} # {} /\ accepter.todo \ {what} \in SUBSET {"slot", "total"}
    BY <1>2
  <2> QED
    BY <2>1, <2>2
<1> QED
  BY <1>1, <1>2

(* The steps of the accept thread and of the clients. *)
LEMMA AccepterKeepsTypes ==
    ASSUME TypeInv,
           \/ \E s \in Socket : Send(s) \/ Close(s) \/ Accept(s)
           \/ LoadTotal \/ StoreSlot \/ StoreTotal
    PROVE  TypeInv'
<1> USE ConnAssumption DEF TypeInv
<1>1. ASSUME NEW s \in Socket, Send(s) PROVE TypeInv'
  <2>1. UNCHANGED <<arr, total, accepter, worker, fdread, upset, overrun>>
    BY <1>1 DEF Send, table
  <2>2. ClientTypes'
    BY <1>1 DEF Send, ClientTypes
  <2> QED
    BY <2>1, <2>2 DEF TableTypes, AccepterTypes, WorkerTypes, RemovesSomething, RestTypes, Slot,
                      AccepterType
<1>2. ASSUME NEW s \in Socket, Close(s) PROVE TypeInv'
  <2>1. UNCHANGED <<arr, total, accepter, worker, fdread, upset, overrun>>
    BY <1>2 DEF Close, table
  <2>2. ClientTypes'
    BY <1>2 DEF Close, ClientTypes, Conn
  <2> QED
    BY <2>1, <2>2 DEF TableTypes, AccepterTypes, WorkerTypes, RemovesSomething, RestTypes, Slot,
                      AccepterType
<1>3. ASSUME NEW s \in Socket, Accept(s) PROVE TypeInv'
  <2>1. UNCHANGED <<pending, arr, total, worker, fdread, overrun>>
    BY <1>3 DEF Accept, table
  <2>2. ClientTypes'
    BY <1>3 DEF Accept, ClientTypes, Conn
  <2>3. AccepterTypes'
    BY <1>3 DEF Accept, AccepterTypes, AccepterType
  <2>4. RestTypes'
    BY <1>3, <2>1 DEF Accept, RestTypes, Note, Upset
  <2> QED
    BY <2>1, <2>2, <2>3, <2>4 DEF TableTypes, WorkerTypes, RemovesSomething, Slot
<1>4. CASE LoadTotal
  <2>1. UNCHANGED <<conn, pending, arr, total, worker, fdread>>
    BY <1>4 DEF LoadTotal, table, clients
  <2>2. AccepterTypes'
    <3>1. CASE UNCHANGED accepter
      BY <3>1 DEF AccepterTypes, AccepterType, Slot
    <3>2. CASE /\ total # Capacity
               /\ accepter' = [accepter EXCEPT !.at = "store", !.n = total,
                                               !.todo = {"slot", "total"}]
      <4>1. total \in Slot
        BY <3>2 DEF TableTypes, Slot
      <4>2. accepter.socket \in Socket
        BY <1>4 DEF LoadTotal, AccepterTypes
      <4> QED
        BY <3>2, <4>1, <4>2 DEF AccepterTypes, AccepterType
    <3> QED
      BY <1>4, <3>1, <3>2 DEF LoadTotal
  <2>3. RestTypes'
    BY <1>4, <2>1 DEF LoadTotal, RestTypes, Note, Upset
  <2> QED
    BY <2>1, <2>2, <2>3 DEF ClientTypes, TableTypes, WorkerTypes, RemovesSomething, Slot
<1>5. CASE StoreSlot
  <2>1. UNCHANGED <<conn, pending, total, worker, fdread, upset, overrun>>
    BY <1>5 DEF StoreSlot, clients
  <2>2. AccepterTypes'
    BY <1>5, StoredTypes DEF StoreSlot, Slot
  <2>3. TableTypes'
    BY <1>5, <2>1 DEF StoreSlot, TableTypes, AccepterTypes, AccepterType
  <2> QED
    BY <2>1, <2>2, <2>3 DEF ClientTypes, WorkerTypes, RemovesSomething, RestTypes
<1>6. CASE StoreTotal
  <2>1. UNCHANGED <<conn, pending, arr, worker, fdread, upset, overrun>>
    BY <1>6 DEF StoreTotal, clients
  <2>2. AccepterTypes'
    BY <1>6, StoredTypes DEF StoreTotal, Slot
  <2>3. TableTypes' /\ RemovesSomething'
    BY <1>6, <2>1 DEF StoreTotal, TableTypes, RemovesSomething, AccepterTypes, AccepterType, Slot
  <2> QED
    BY <2>1, <2>2, <2>3 DEF ClientTypes, WorkerTypes, RestTypes
<1> QED
  BY <1>1, <1>2, <1>3, <1>4, <1>5, <1>6

(* The next index is one of the array's, or the one behind it.             *)
LEMMA NextIndex ==
    ASSUME TypeInv, AtIndex
    PROVE  worker.i \in Slot /\ worker.i + 1 \in 0..Capacity
BY ConnAssumption DEF TypeInv, TableTypes, WorkerTypes, WorkerType, AtIndex, Slot

(* The second of the two stores ends the removal, the first one does not. *)
LEMMA MovedTypes ==
    ASSUME TypeInv, NEW what \in {"slot", "total"}, what \in worker.todo, Moved(what)
    PROVE  WorkerTypes' /\ worker'.at # "remove"
<1>1. /\ worker \in WorkerType /\ worker.at = "move"
      /\ worker.i + 1 \in 0..Capacity /\ 0 \in 0..Capacity
      /\ worker.i < Capacity /\ worker.n < Capacity
  BY ConnAssumption DEF TypeInv, WorkerTypes, WorkerType
<1>2. CASE worker.todo = {what}
  <2>1. worker' = [worker EXCEPT !.at = "serve", !.i = worker.i + 1, !.n = 0, !.todo = {}]
    BY <1>2 DEF Moved
  <2> QED
    BY <1>1, <2>1 DEF WorkerTypes, WorkerType
<1>3. CASE worker.todo # {what}
  <2>1. worker' = [worker EXCEPT !.todo = worker.todo \ {what}]
    BY <1>3 DEF Moved
  <2>2. worker.todo \ {what} # {} /\ worker.todo \ {what} \in SUBSET {"slot", "total"}
    BY <1>1, <1>3 DEF WorkerType
  <2> QED
    BY <1>1, <2>1, <2>2 DEF WorkerTypes, WorkerType
<1> QED
  BY <1>2, <1>3

(* The steps of the worker thread. *)
LEMMA WorkerKeepsTypes ==
    ASSUME TypeInv, WorkerThread
    PROVE  TypeInv'
<1> USE ConnAssumption DEF TypeInv
<1>1. CASE CollectNext
  <2>1. UNCHANGED <<conn, pending, arr, total, accepter, overrun>>
    BY <1>1 DEF CollectNext, table, clients
  <2>2. WorkerTypes' /\ RemovesSomething'
    BY <1>1, NextIndex DEF CollectNext, WorkerTypes, WorkerType, RemovesSomething
  <2>3. fdread' \in SUBSET (Socket \cup {NULL})
    BY <1>1, NextIndex DEF CollectNext, RestTypes, TableTypes
  <2>4. RestTypes'
    BY <1>1, <2>1, <2>3 DEF CollectNext, RestTypes, NoteTorn, Note, Upset
  <2> QED
    BY <2>1, <2>2, <2>4 DEF ClientTypes, TableTypes, AccepterTypes
<1>2. ASSUME Again, worker.at # "move" PROVE TypeInv'
  <2>1. UNCHANGED <<conn, pending, arr, total, accepter, upset, overrun>>
    BY <1>2 DEF Again, table, clients
  <2>2. WorkerTypes' /\ RemovesSomething'
    <3>1. worker' = [worker EXCEPT !.at = "collect", !.i = 0] /\ worker.todo = {}
      BY <1>2 DEF Again, WorkerTypes
    <3>2. 0 \in 0..Capacity
      OBVIOUS
    <3> QED
      BY <3>1, <3>2 DEF WorkerTypes, WorkerType, RemovesSomething
  <2>3. fdread' = {}
    BY <1>2 DEF Again
  <2> QED
    BY <2>1, <2>2, <2>3 DEF ClientTypes, TableTypes, AccepterTypes, RestTypes
<1>3. CASE CollectEnd
  <2>1. CASE Again
    BY <1>2, <1>3, <2>1 DEF CollectEnd
  <2>2. CASE /\ worker' = [worker EXCEPT !.at = "select", !.i = 0]
             /\ UNCHANGED <<clients, table, accepter, fdread, upset, overrun>>
    <3>1. UNCHANGED <<conn, pending, arr, total, accepter, fdread, upset, overrun>>
      BY <2>2 DEF table, clients
    <3>2. WorkerTypes' /\ RemovesSomething'
      <4>1. worker.todo = {} /\ 0 \in 0..Capacity
        BY <1>3 DEF CollectEnd, WorkerTypes
      <4> QED
        BY <2>2, <4>1 DEF WorkerTypes, WorkerType, RemovesSomething
    <3> QED
      BY <3>1, <3>2 DEF ClientTypes, TableTypes, AccepterTypes, RestTypes
  <2> QED
    BY <1>3, <2>1, <2>2 DEF CollectEnd
<1>4. CASE Select
  <2>1. CASE Again
    BY <1>2, <1>4, <2>1 DEF Select
  <2>2. CASE /\ fdread' = Selected
             /\ worker' = [worker EXCEPT !.at = "serve"]
             /\ UNCHANGED <<clients, table, accepter, upset, overrun>>
    <3>1. UNCHANGED <<conn, pending, arr, total, accepter, upset, overrun>>
      BY <2>2 DEF table, clients
    <3>2. WorkerTypes' /\ RemovesSomething'
      BY <1>4, <2>2 DEF Select, WorkerTypes, WorkerType, RemovesSomething
    <3>3. fdread' \subseteq fdread
      BY <2>2 DEF Selected
    <3> QED
      BY <3>1, <3>2, <3>3 DEF ClientTypes, TableTypes, AccepterTypes, RestTypes
  <2> QED
    BY <1>4, <2>1, <2>2 DEF Select
<1>5. CASE Pass \/ Receive
  <2>1. UNCHANGED <<conn, arr, total, accepter, fdread, overrun>> /\ Serving /\ ToNext /\ NoteTorn
    BY <1>5 DEF Pass, Receive, table, clients
  <2>2. pending' \in [Socket -> BOOLEAN]
    BY <1>5 DEF Pass, Receive, clients, ClientTypes
  <2>3. WorkerTypes' /\ RemovesSomething'
    BY <2>1, NextIndex DEF Serving, ToNext, WorkerTypes, WorkerType, RemovesSomething
  <2>4. RestTypes'
    BY <2>1 DEF RestTypes, NoteTorn, Note, Upset
  <2> QED
    BY <2>1, <2>2, <2>3, <2>4 DEF ClientTypes, TableTypes, AccepterTypes
<1>6. CASE Hangup
  <2>1. UNCHANGED <<pending, arr, total, accepter, fdread, overrun>> /\ Serving /\ NoteTorn
    BY <1>6 DEF Hangup, table
  <2>2. ClientTypes'
    BY <1>6, <2>1 DEF Hangup, ClientTypes, Conn
  <2>3. worker.i < total /\ worker.i < Capacity
    BY <2>1, NextIndex DEF Serving, AtIndex, Slot, WorkerTypes, WorkerType
  <2>4. WorkerTypes'
    BY <1>6, <2>1, <2>3 DEF Hangup, Serving, WorkerTypes, WorkerType
  <2>5. RemovesSomething'
    BY <2>1, <2>3 DEF RemovesSomething, WorkerTypes, WorkerType, TableTypes
  <2>6. RestTypes'
    BY <2>1 DEF RestTypes, NoteTorn, Note, Upset
  <2> QED
    BY <2>1, <2>2, <2>4, <2>5, <2>6 DEF TableTypes, AccepterTypes
<1>7. CASE ServeEnd
  BY <1>2, <1>7 DEF ServeEnd
<1>8. CASE Remove
  <2>1. UNCHANGED <<conn, pending, arr, total, accepter, fdread, overrun>>
    BY <1>8 DEF Remove, table, clients
  <2>2. total - 1 \in 0..Capacity /\ total - 1 < Capacity
    BY <1>8 DEF Remove, RemovesSomething, TableTypes
  <2>3. WorkerTypes' /\ RemovesSomething'
    BY <1>8, <2>2 DEF Remove, WorkerTypes, WorkerType, RemovesSomething
  <2>4. RestTypes'
    BY <1>8, <2>1 DEF Remove, RestTypes, Note, Upset
  <2> QED
    BY <2>1, <2>3, <2>4 DEF ClientTypes, TableTypes, AccepterTypes
<1>9. CASE MoveLast
  <2>1. UNCHANGED <<conn, pending, total, accepter, fdread, upset, overrun>>
    BY <1>9 DEF MoveLast, clients
  <2>2. WorkerTypes' /\ RemovesSomething'
    BY <1>9, MovedTypes DEF MoveLast, RemovesSomething
  <2>3. worker.n \in Slot
    BY <1>9 DEF MoveLast, WorkerTypes, WorkerType, Slot
  <2>4. TableTypes'
    BY <1>9, <2>1, <2>3 DEF MoveLast, TableTypes
  <2> QED
    BY <2>1, <2>2, <2>4 DEF ClientTypes, AccepterTypes, RestTypes
<1>10. CASE Decrement
  <2>1. UNCHANGED <<conn, pending, arr, accepter, fdread, upset, overrun>>
    BY <1>10 DEF Decrement, clients
  <2>2. WorkerTypes' /\ RemovesSomething'
    BY <1>10, MovedTypes DEF Decrement, RemovesSomething
  <2>3. TableTypes'
    BY <1>10, <2>1 DEF Decrement, TableTypes, WorkerTypes, WorkerType
  <2> QED
    BY <2>1, <2>2, <2>3 DEF ClientTypes, AccepterTypes, RestTypes
<1> QED
  BY <1>1, <1>3, <1>4, <1>5, <1>6, <1>7, <1>8, <1>9, <1>10 DEF WorkerThread

(* Every step keeps the types. *)
LEMMA TypeKept == TypeInv /\ [Next]_vars => TypeInv'
<1> SUFFICES ASSUME TypeInv, [Next]_vars
             PROVE  TypeInv'
  OBVIOUS
<1>1. CASE UNCHANGED vars
  BY <1>1 DEF vars, TypeInv, ClientTypes, TableTypes, AccepterTypes, WorkerTypes,
              RemovesSomething, RestTypes
<1>2. CASE Next
  BY <1>2, AccepterKeepsTypes, WorkerKeepsTypes DEF Next, AcceptThread
<1> QED
  BY <1>1, <1>2

(* Every variable keeps its type: indices stay within the array, and the   *)
(* count within its size.                                                  *)
THEOREM ConnTypeCorrect == Spec => []TypeOK
<1>1. TypeInv => TypeOK
  BY DEF TypeInv, TypeOK, ClientTypes, TableTypes, AccepterTypes, AccepterType, WorkerTypes,
         WorkerType, RestTypes
<1> QED
  BY <1>1, TypeInit, TypeKept, PTL DEF Spec

-------------------------------------------------------------------------------
(* What the array holds, as long as append and removal have not overlapped *)
(* and no slot was read before it was written.                             *)

Orderly == upset \subseteq {"reuse"}

(* The connection that accept has returned and that is not in the table.   *)
NotYet(x) == accepter.at # "accept" /\ accepter.socket = x

(* The number of connections before the append that is under way. *)
Size == IF accepter.at = "store" THEN accepter.n ELSE total

(* The slots that count: those below Size, but for the hole of a removal,  *)
(* and for the last one once that has been moved.                          *)
Live ==
    IF worker.at = "remove" THEN (0..Size - 1) \ {worker.i}
    ELSE IF worker.at = "move"
           THEN IF "slot" \in worker.todo THEN (0..worker.n) \ {worker.i} ELSE 0..worker.n - 1
           ELSE 0..Size - 1

AppendCounts ==
    accepter.at = "store" =>
        /\ worker.at # "move"
        /\ total = IF "total" \in accepter.todo THEN accepter.n ELSE accepter.n + 1
        /\ "slot" \notin accepter.todo => arr[accepter.n] = accepter.socket

RemovalCounts ==
    /\ worker.at = "move" =>
          /\ total = IF "total" \in worker.todo THEN worker.n + 1 ELSE worker.n
          /\ worker.i <= worker.n
    /\ worker.at = "remove" => worker.i < Size

(* The slots hold connections, each one once, and all but the new one. *)
LiveOpen == \A k \in Live : arr[k] \in Socket /\ conn[arr[k]] # "free" /\ ~NotYet(arr[k])
LiveOnce == \A j, k \in Live : arr[j] = arr[k] => j = k
AllLive == \A s \in Socket : conn[s] # "free" => NotYet(s) \/ \E k \in Live : arr[k] = s
NewOpen == \A s \in Socket : NotYet(s) => conn[s] # "free"

Contents == LiveOpen /\ LiveOnce /\ AllLive /\ NewOpen

Exact == Orderly => AppendCounts /\ RemovalCounts /\ Contents

(* All slots that count are in the array. *)
LEMMA LiveSlots ==
    ASSUME TypeInv, AppendCounts
    PROVE  Size \in 0..Capacity /\ Live \subseteq Slot
BY ConnAssumption DEF TypeInv, TableTypes, AccepterTypes, AccepterType, WorkerTypes, WorkerType,
                      Size, Live, Slot

(* The index the worker is at counts, unless its slot is not written yet. *)
LEMMA CurrentIsLive ==
    ASSUME TypeInv, Exact, Orderly, worker.at \in {"collect", "serve"}, AtIndex, ~Torn
    PROVE  worker.i \in Live /\ worker.i < Size
<1>1. worker.i \in Nat /\ total \in Nat
  BY ConnAssumption DEF TypeInv, TableTypes, WorkerTypes, WorkerType
<1>2. worker.i < Size
  <2>1. CASE accepter.at = "store"
    <3>1. accepter.n \in Nat /\ accepter.todo \in SUBSET {"slot", "total"} /\ accepter.todo # {}
      BY <2>1, ConnAssumption DEF TypeInv, AccepterTypes, AccepterType, Slot
    <3>2. CASE "total" \in accepter.todo
      BY <1>1, <2>1, <3>1, <3>2 DEF Exact, AppendCounts, AtIndex, Size
    <3>3. CASE "total" \notin accepter.todo
      <4>1. accepter.todo = {"slot"}
        BY <3>1, <3>3
      <4>2. worker.i # accepter.n
        BY <4>1 DEF Torn
      <4> QED
        BY <1>1, <2>1, <3>1, <3>3, <4>2 DEF Exact, AppendCounts, AtIndex, Size
    <3> QED
      BY <3>2, <3>3
  <2>2. CASE accepter.at # "store"
    BY <2>2 DEF AtIndex, Size
  <2> QED
    BY <2>1, <2>2
<1>3. Live = 0..Size - 1
  BY DEF Live
<1>4. Size \in Nat
  BY LiveSlots, ConnAssumption DEF Exact
<1> QED
  BY <1>1, <1>2, <1>3, <1>4

(* Steps that change neither the table nor who is connected, and do not    *)
(* begin or end a removal.                                                 *)
LEMMA ExactFrame ==
    ASSUME TypeInv, Exact, UNCHANGED <<arr, total, accepter>>, upset \subseteq upset',
           \A s \in Socket : conn'[s] = "free" <=> conn[s] = "free",
           \/ UNCHANGED worker
           \/ worker.at \notin {"remove", "move"} /\ worker'.at \notin {"remove", "move"}
    PROVE  Exact'
<1> SUFFICES ASSUME Orderly'
             PROVE  (AppendCounts /\ RemovalCounts /\ Contents)'
  BY DEF Exact
<1>1. AppendCounts /\ RemovalCounts /\ Contents
  BY DEF Exact, Orderly
<1>2. Size' = Size /\ \A x : NotYet(x)' <=> NotYet(x)
  BY DEF Size, NotYet
<1>3. Live' = Live
  BY <1>2 DEF Live
<1>4. AppendCounts' /\ RemovalCounts'
  BY <1>1, <1>2 DEF AppendCounts, RemovalCounts
<1>5. LiveOpen' /\ LiveOnce' /\ AllLive' /\ NewOpen'
  BY <1>1, <1>2, <1>3 DEF Contents, LiveOpen, LiveOnce, AllLive, NewOpen
<1> QED
  BY <1>4, <1>5 DEF Contents

(* A connection that accept returns is open and in no slot that counts. *)
LEMMA AcceptExact ==
    ASSUME TypeInv, Exact, NEW s \in Socket, Accept(s)
    PROVE  Exact'
<1> SUFFICES ASSUME Orderly'
             PROVE  (AppendCounts /\ RemovalCounts /\ Contents)'
  BY DEF Exact
<1>1. /\ UNCHANGED <<arr, total, worker>>
      /\ accepter.at = "accept" /\ accepter'.at = "append" /\ accepter'.socket = s
      /\ conn[s] = "free" /\ conn'[s] # "free"
      /\ \A x \in Socket \ {s} : conn'[x] = conn[x]
  BY DEF Accept, table, TypeInv, AccepterTypes, AccepterType, ClientTypes
<1>2. AppendCounts /\ RemovalCounts /\ Contents
  BY DEF Exact, Orderly, Accept, Note
<1>3. Size' = Size /\ Live' = Live
  BY <1>1 DEF Size, Live
<1>4. AppendCounts' /\ RemovalCounts'
  BY <1>1, <1>2, <1>3 DEF AppendCounts, RemovalCounts
<1>5. \A x : ~NotYet(x) /\ (NotYet(x)' <=> x = s)
  BY <1>1 DEF NotYet
<1>6. LiveOpen' /\ LiveOnce' /\ AllLive' /\ NewOpen'
  BY <1>1, <1>2, <1>3, <1>5 DEF Contents, LiveOpen, LiveOnce, AllLive, NewOpen
<1> QED
  BY <1>4, <1>6 DEF Contents

(* The load of the total changes nothing that counts. *)
LEMMA LoadTotalLive ==
    ASSUME TypeInv, LoadTotal, Orderly'
    PROVE  /\ UNCHANGED <<clients, arr, total, worker, fdread>>
           /\ Orderly
           /\ Live' = Live /\ Size' = Size /\ \A x : NotYet(x)' <=> NotYet(x)
           /\ accepter'.at = "store" =>
                 /\ worker.at # "move"
                 /\ accepter'.n = total /\ accepter'.todo = {"slot", "total"}
<1>1. UNCHANGED <<clients, arr, total, worker, fdread>> /\ accepter.at = "append"
  BY DEF LoadTotal, table
<1>2. CASE UNCHANGED <<accepter, upset>>
  BY <1>1, <1>2 DEF Orderly, Size, Live, NotYet
<1>3. CASE /\ accepter' = [accepter EXCEPT !.at = "store", !.n = total,
                                           !.todo = {"slot", "total"}]
           /\ Note("append", worker.at = "move")
  <2>1. Orderly /\ worker.at # "move"
    BY <1>3 DEF Orderly, Note
  <2>2. /\ accepter'.at = "store" /\ accepter'.n = total
        /\ accepter'.todo = {"slot", "total"} /\ accepter'.socket = accepter.socket
    BY <1>3 DEF TypeInv, AccepterTypes, AccepterType
  <2> QED
    BY <1>1, <2>1, <2>2 DEF Size, Live, NotYet
<1> QED
  BY <1>2, <1>3 DEF LoadTotal

(* So the table is as exact as before. *)
LEMMA LoadTotalExact ==
    ASSUME TypeInv, Exact, LoadTotal
    PROVE  Exact'
<1> SUFFICES ASSUME Orderly'
             PROVE  (AppendCounts /\ RemovalCounts /\ Contents)'
  BY DEF Exact
<1>1. /\ UNCHANGED <<conn, arr, total, worker>>
      /\ Orderly
      /\ Live' = Live /\ Size' = Size /\ \A x : NotYet(x)' <=> NotYet(x)
      /\ accepter'.at = "store" =>
            /\ worker.at # "move"
            /\ accepter'.n = total /\ accepter'.todo = {"slot", "total"}
  BY LoadTotalLive DEF clients
<1>2. AppendCounts /\ RemovalCounts /\ Contents
  BY <1>1 DEF Exact
<1>3. AppendCounts' /\ RemovalCounts'
  BY <1>1, <1>2 DEF AppendCounts, RemovalCounts
<1>4. LiveOpen' /\ LiveOnce' /\ AllLive' /\ NewOpen'
  BY <1>1, <1>2 DEF Contents, LiveOpen, LiveOnce, AllLive, NewOpen
<1> QED
  BY <1>3, <1>4 DEF Contents

(* After the first store the append goes on, in a slot that does not count *)
(* yet; after the second the slot counts.                                  *)
LEMMA StoreLive ==
    ASSUME TypeInv, Exact, Orderly, StoreSlot \/ StoreTotal
    PROVE  /\ UNCHANGED <<clients, worker, fdread, upset>>
           /\ \A k \in Live : arr'[k] = arr[k]
           /\ worker.at # "move" /\ RemovalCounts' /\ AppendCounts'
           /\ \/ Live' = Live /\ \A x : NotYet(x)' <=> NotYet(x)
              \/ /\ accepter.n \notin Live /\ Live' = Live \cup {accepter.n}
                 /\ accepter.socket \in Socket /\ arr'[accepter.n] = accepter.socket
                 /\ \A x : ~NotYet(x)' /\ (NotYet(x) <=> x = accepter.socket)
<1> DEFINE n == accepter.n
<1>1. /\ UNCHANGED <<clients, worker, fdread, upset>>
      /\ accepter.at = "store" /\ accepter.todo \in SUBSET {"slot", "total"}
      /\ n \in Slot /\ accepter.socket \in Socket
  BY DEF StoreSlot, StoreTotal, TypeInv, AccepterTypes, AccepterType
<1>2. AppendCounts /\ RemovalCounts
  BY DEF Exact
<1>3. worker.at # "move" /\ n \in Nat /\ total \in Nat
  BY <1>1, <1>2, ConnAssumption DEF AppendCounts, Slot, TypeInv, TableTypes
<1>4. \A k \in Live : k # n /\ k \in Slot
  BY <1>1, <1>2, <1>3, LiveSlots DEF Live, Size, Slot
<1>5. \A k \in Live : arr'[k] = arr[k]
  BY <1>4 DEF StoreSlot, StoreTotal, TypeInv, TableTypes
<1>6. CASE accepter'.at = "store"
  <2>1. /\ accepter'.n = n /\ accepter'.socket = accepter.socket
        /\ \/ accepter'.todo = {"total"} /\ total' = total /\ total = n
              /\ arr'[n] = accepter.socket
           \/ accepter'.todo = {"slot"} /\ total' = n + 1
    <3>1. CASE StoreSlot
      <4>1. accepter' = [accepter EXCEPT !.todo = accepter.todo \ {"slot"}]
        BY <1>6, <3>1 DEF StoreSlot, Stored, TypeInv, AccepterTypes, AccepterType
      <4>2. accepter.todo = {"slot", "total"}
        BY <1>1, <1>6, <3>1 DEF StoreSlot, Stored, TypeInv, AccepterTypes, AccepterType
      <4>3. total = n
        BY <4>2, <1>1, <1>2 DEF AppendCounts
      <4>4. arr'[n] = accepter.socket /\ total' = total
        BY <3>1, <1>1 DEF StoreSlot, TypeInv, TableTypes
      <4> QED
        BY <4>1, <4>2, <4>3, <4>4 DEF TypeInv, AccepterTypes, AccepterType
    <3>2. CASE StoreTotal
      <4>1. accepter' = [accepter EXCEPT !.todo = accepter.todo \ {"total"}]
        BY <1>6, <3>2 DEF StoreTotal, Stored, TypeInv, AccepterTypes, AccepterType
      <4>2. accepter.todo = {"slot", "total"}
        BY <1>1, <1>6, <3>2 DEF StoreTotal, Stored, TypeInv, AccepterTypes, AccepterType
      <4> QED
        BY <3>2, <4>1, <4>2 DEF StoreTotal, TypeInv, AccepterTypes, AccepterType
    <3> QED
      BY <3>1, <3>2
  <2>2. Size' = Size /\ Live' = Live /\ \A x : NotYet(x)' <=> NotYet(x)
    BY <1>1, <1>3, <1>6, <2>1 DEF Size, Live, NotYet
  <2>3. AppendCounts' /\ RemovalCounts'
    BY <1>1, <1>2, <1>3, <1>6, <2>1, <2>2 DEF AppendCounts, RemovalCounts
  <2> QED
    BY <1>1, <1>3, <1>5, <2>2, <2>3
<1>7. CASE accepter'.at # "store"
  <2>1. accepter'.at = "accept" /\ total' = n + 1 /\ arr'[n] = accepter.socket
    <3>1. CASE StoreSlot
      <4>1. accepter.todo = {"slot"} /\ accepter'.at = "accept"
        BY <1>1, <1>7, <3>1 DEF StoreSlot, Stored, TypeInv, AccepterTypes, AccepterType
      <4>2. total' = n + 1
        BY <1>1, <1>2, <3>1, <4>1 DEF StoreSlot, AppendCounts
      <4> QED
        BY <1>1, <3>1, <4>1, <4>2 DEF StoreSlot, TypeInv, TableTypes
    <3>2. CASE StoreTotal
      <4>1. accepter.todo = {"total"} /\ accepter'.at = "accept"
        BY <1>1, <1>7, <3>2 DEF StoreTotal, Stored, TypeInv, AccepterTypes, AccepterType
      <4>2. arr'[n] = accepter.socket
        BY <1>1, <1>2, <3>2, <4>1 DEF StoreTotal, AppendCounts
      <4> QED
        BY <3>2, <4>1, <4>2 DEF StoreTotal
    <3> QED
      BY <3>1, <3>2
  <2>2. Size = n /\ Size' = n + 1 /\ \A x : ~NotYet(x)' /\ (NotYet(x) <=> x = accepter.socket)
    BY <1>1, <2>1 DEF Size, NotYet
  <2>3. RemovalCounts' /\ AppendCounts'
    BY <1>1, <1>2, <1>3, <2>1, <2>2 DEF AppendCounts, RemovalCounts, TypeInv, WorkerTypes,
                                        WorkerType
  <2>4. Live' = Live \cup {n}
    <3>1. worker.at = "remove" => worker.i < n /\ worker.i \in Nat
      BY <1>2, <2>2 DEF RemovalCounts, TypeInv, WorkerTypes, WorkerType
    <3>2. 0..n + 1 - 1 = (0..n - 1) \cup {n}
      BY <1>3
    <3> QED
      BY <1>1, <1>3, <2>2, <3>1, <3>2 DEF Live
  <2> QED
    BY <1>1, <1>3, <1>4, <1>5, <2>1, <2>2, <2>3, <2>4
<1> QED
  BY <1>6, <1>7

(* So the new connection is in the table, once. *)
LEMMA StoreExact ==
    ASSUME TypeInv, Exact, StoreSlot \/ StoreTotal
    PROVE  Exact'
<1> SUFFICES ASSUME Orderly'
             PROVE  (AppendCounts /\ RemovalCounts /\ Contents)'
  BY DEF Exact
<1>1. Orderly /\ Contents
  BY DEF Exact, Orderly, StoreSlot, StoreTotal
<1>2. /\ UNCHANGED conn
      /\ \A k \in Live : arr'[k] = arr[k]
      /\ RemovalCounts' /\ AppendCounts'
      /\ \/ Live' = Live /\ \A x : NotYet(x)' <=> NotYet(x)
         \/ /\ accepter.n \notin Live /\ Live' = Live \cup {accepter.n}
            /\ accepter.socket \in Socket /\ arr'[accepter.n] = accepter.socket
            /\ \A x : ~NotYet(x)' /\ (NotYet(x) <=> x = accepter.socket)
  BY <1>1, StoreLive DEF clients
<1>3. LiveOpen' /\ LiveOnce' /\ AllLive' /\ NewOpen'
  BY <1>1, <1>2 DEF Contents, LiveOpen, LiveOnce, AllLive, NewOpen
<1> QED
  BY <1>2, <1>3 DEF Contents

(* The slot of the client that is gone is a hole from now on. *)
LEMMA HangupLive ==
    ASSUME TypeInv, Exact, Orderly', Hangup
    PROVE  /\ UNCHANGED <<pending, arr, total, accepter, fdread>> /\ Orderly
           /\ worker.i \in Live /\ worker.i < Size /\ worker'.i = worker.i
           /\ worker'.at = "remove" /\ worker.at = "serve"
           /\ Live' = Live \ {worker.i} /\ Size' = Size /\ \A x : NotYet(x)' <=> NotYet(x)
           /\ Current \in Socket /\ ~NotYet(Current) /\ conn'[Current] = "free"
           /\ \A s \in Socket \ {Current} : conn'[s] = conn[s]
           /\ \A k \in Live' : arr[k] # Current
<1>1. /\ UNCHANGED <<pending, arr, total, accepter, fdread>>
      /\ worker.at = "serve" /\ AtIndex
      /\ worker' = [worker EXCEPT !.at = "remove"]
      /\ Current # NULL /\ conn' = [conn EXCEPT ![Current] = "free"]
  BY DEF Hangup, Serving, Open, table
<1>2. Orderly /\ ~Torn
  BY DEF Hangup, NoteTorn, Note, Orderly
<1>3. worker.i \in Live /\ worker.i < Size
  BY <1>1, <1>2, CurrentIsLive
<1>4. worker'.at = "remove" /\ worker'.i = worker.i
  BY <1>1 DEF TypeInv, WorkerTypes, WorkerType
<1>5. Contents
  BY <1>2 DEF Exact
<1>6. /\ Current \in Socket /\ ~NotYet(Current)
      /\ conn'[Current] = "free" /\ \A s \in Socket \ {Current} : conn'[s] = conn[s]
  BY <1>1, <1>3, <1>5 DEF Contents, LiveOpen, Current, TypeInv, ClientTypes
<1>7. Size' = Size /\ \A x : NotYet(x)' <=> NotYet(x)
  BY <1>1 DEF Size, NotYet
<1>8. Live' = Live \ {worker.i}
  BY <1>1, <1>4, <1>7 DEF Live
<1>9. \A k \in Live' : arr[k] # Current
  BY <1>3, <1>5, <1>8 DEF Contents, LiveOnce, Current
<1> QED
  BY <1>1, <1>2, <1>3, <1>4, <1>6, <1>7, <1>8, <1>9

(* So the table lists the connections that are left. *)
LEMMA HangupExact ==
    ASSUME TypeInv, Exact, Hangup
    PROVE  Exact'
<1> SUFFICES ASSUME Orderly'
             PROVE  (AppendCounts /\ RemovalCounts /\ Contents)'
  BY DEF Exact
<1>1. /\ UNCHANGED <<arr, total, accepter>> /\ Orderly
      /\ worker.i < Size /\ worker'.i = worker.i
      /\ worker'.at = "remove"
      /\ Live' = Live \ {worker.i} /\ Size' = Size /\ \A x : NotYet(x)' <=> NotYet(x)
      /\ Current \in Socket /\ ~NotYet(Current) /\ conn'[Current] = "free"
      /\ \A s \in Socket \ {Current} : conn'[s] = conn[s]
      /\ \A k \in Live' : arr[k] # Current
  BY HangupLive
<1>2. AppendCounts /\ RemovalCounts /\ Contents
  BY <1>1 DEF Exact
<1>3. AppendCounts' /\ RemovalCounts'
  BY <1>1, <1>2 DEF AppendCounts, RemovalCounts
<1>4. LiveOpen' /\ LiveOnce' /\ NewOpen'
  BY <1>1, <1>2 DEF Contents, LiveOpen, LiveOnce, NewOpen
<1>5. AllLive'
  <2>1. SUFFICES ASSUME NEW s \in Socket, conn'[s] # "free", ~NotYet(s)
                 PROVE  \E k \in Live' : arr[k] = s
    BY <1>1 DEF AllLive
  <2>2. s # Current /\ conn[s] # "free"
    BY <2>1, <1>1
  <2>3. PICK k \in Live : arr[k] = s
    BY <2>1, <2>2, <1>2 DEF Contents, AllLive
  <2> QED
    BY <2>2, <2>3, <1>1 DEF Current
<1> QED
  BY <1>3, <1>4, <1>5 DEF Contents

(* The removal begins with the total that was reached. *)
LEMMA RemoveLive ==
    ASSUME TypeInv, Exact, Orderly', Remove
    PROVE  /\ UNCHANGED <<clients, arr, total, accepter, fdread>> /\ Orderly
           /\ Live' = Live /\ \A x : NotYet(x)' <=> NotYet(x)
           /\ accepter.at # "store" /\ worker.i < total
           /\ worker.at = "remove" /\ worker'.at = "move" /\ worker'.i = worker.i
           /\ worker'.n = total - 1 /\ worker'.todo = {"slot", "total"}
           /\ worker.i \in Nat /\ total \in Nat
<1>1. /\ UNCHANGED <<clients, arr, total, accepter, fdread>>
      /\ worker.at = "remove"
      /\ worker' = [worker EXCEPT !.at = "move", !.n = total - 1, !.todo = {"slot", "total"}]
  BY DEF Remove, table
<1>2. Orderly /\ accepter.at # "store"
  BY DEF Remove, Note, Orderly
<1>3. /\ worker'.at = "move" /\ worker'.i = worker.i /\ worker'.n = total - 1
      /\ worker'.todo = {"slot", "total"}
  BY <1>1 DEF TypeInv, WorkerTypes, WorkerType
<1>4. worker.i \in Nat /\ total \in Nat /\ Size = total /\ worker.i < total
  BY <1>1, <1>2 DEF Exact, Size, RemovalCounts, TypeInv, WorkerTypes, WorkerType, TableTypes
<1>5. Live' = Live /\ \A x : NotYet(x)' <=> NotYet(x)
  BY <1>1, <1>3, <1>4 DEF Live, NotYet
<1> QED
  BY <1>1, <1>2, <1>3, <1>4, <1>5

(* The hole still is the only slot that does not count. *)
LEMMA RemoveExact ==
    ASSUME TypeInv, Exact, Remove
    PROVE  Exact'
<1> SUFFICES ASSUME Orderly'
             PROVE  (AppendCounts /\ RemovalCounts /\ Contents)'
  BY DEF Exact
<1>1. /\ UNCHANGED <<conn, arr, total, accepter>> /\ Orderly
      /\ Live' = Live /\ \A x : NotYet(x)' <=> NotYet(x)
      /\ accepter.at # "store" /\ worker.i < total
      /\ worker'.at = "move" /\ worker'.i = worker.i
      /\ worker'.n = total - 1 /\ worker'.todo = {"slot", "total"}
      /\ worker.i \in Nat /\ total \in Nat
  BY RemoveLive DEF clients
<1>2. AppendCounts' /\ RemovalCounts'
  BY <1>1 DEF AppendCounts, RemovalCounts
<1>3. LiveOpen' /\ LiveOnce' /\ AllLive' /\ NewOpen'
  BY <1>1 DEF Exact, Contents, LiveOpen, LiveOnce, AllLive, NewOpen
<1> QED
  BY <1>2, <1>3 DEF Contents

(* The last entry replaces the hole, and counts there. *)
LEMMA MoveLastLive ==
    ASSUME TypeInv, Exact, Orderly, MoveLast
    PROVE  LET i == worker.i
               n == worker.n
           IN  /\ UNCHANGED <<clients, total, accepter, fdread, upset>>
               /\ \A x : NotYet(x)' <=> NotYet(x)
               /\ AppendCounts' /\ RemovalCounts'
               /\ Live = (0..n) \ {i} /\ Live' = 0..n - 1
               /\ i \in Nat /\ n \in Nat /\ i <= n /\ worker'.i \in {i, i + 1}
               /\ \A k \in 0..n - 1 : /\ k = i => n \in Live /\ arr'[k] = arr[n]
                                      /\ k # i => k \in Live /\ arr'[k] = arr[k] /\ k # n
               /\ worker.at = "move"
<1> DEFINE i == worker.i
           n == worker.n
<1>1. /\ UNCHANGED <<clients, total, accepter, fdread, upset>>
      /\ worker.at = "move" /\ "slot" \in worker.todo
      /\ arr' = [arr EXCEPT ![i] = arr[n]]
  BY DEF MoveLast, TypeInv, WorkerTypes
<1>2. AppendCounts /\ RemovalCounts
  BY DEF Exact
<1>3. /\ i \in Nat /\ n \in Nat /\ i <= n /\ i \in Slot /\ n \in Slot
      /\ worker.todo \in SUBSET {"slot", "total"}
  BY <1>1, <1>2, ConnAssumption
     DEF RemovalCounts, TypeInv, WorkerTypes, WorkerType, Slot
<1>4. Live = (0..n) \ {i}
  BY <1>1 DEF Live
<1>5. accepter.at # "store" /\ total \in Nat /\ \A x : NotYet(x)' <=> NotYet(x)
  BY <1>1, <1>2 DEF AppendCounts, TypeInv, TableTypes, NotYet
<1>6. arr'[i] = arr[n] /\ \A k \in Slot \ {i} : arr'[k] = arr[k]
  BY <1>1, <1>3 DEF TypeInv, TableTypes
<1>7. /\ Live' = 0..n - 1
      /\ RemovalCounts'
      /\ worker'.i \in {i, i + 1}
  <2>1. CASE worker.todo = {"slot"}
    <3>1. worker'.at = "serve" /\ total = n /\ worker'.i = i + 1
      BY <1>1, <1>2, <2>1 DEF MoveLast, Moved, RemovalCounts, TypeInv, WorkerTypes, WorkerType
    <3> QED
      BY <3>1, <1>1, <1>5 DEF Live, Size, RemovalCounts
  <2>2. CASE worker.todo # {"slot"}
    <3>1. worker' = [worker EXCEPT !.todo = worker.todo \ {"slot"}] /\ "total" \in worker.todo
      BY <1>1, <1>3, <2>2 DEF MoveLast, Moved
    <3>2. /\ worker'.at = "move" /\ "slot" \notin worker'.todo /\ "total" \in worker'.todo
          /\ worker'.n = n /\ worker'.i = i /\ total = n + 1
      BY <1>1, <1>2, <1>3, <3>1 DEF RemovalCounts, TypeInv, WorkerTypes, WorkerType
    <3> QED
      BY <3>2, <1>1, <1>3 DEF Live, RemovalCounts
  <2> QED
    BY <2>1, <2>2
<1>8. AppendCounts'
  BY <1>1, <1>5 DEF AppendCounts
<1>9. \A k \in 0..n - 1 : /\ k = i => n \in Live /\ arr'[k] = arr[n]
                          /\ k # i => k \in Live /\ arr'[k] = arr[k] /\ k # n
  <2>1. SUFFICES ASSUME NEW k \in 0..n - 1
                 PROVE  /\ k = i => n \in Live /\ arr'[k] = arr[n]
                        /\ k # i => k \in Live /\ arr'[k] = arr[k] /\ k # n
    OBVIOUS
  <2>2. k \in Nat /\ k < n /\ k \in 0..n /\ n \in 0..n
    BY <1>3
  <2>3. k \in Slot
    BY <2>2, <1>3, ConnAssumption DEF Slot
  <2> QED
    BY <2>2, <2>3, <1>4, <1>6
<1> QED
  BY <1>1, <1>3, <1>4, <1>5, <1>7, <1>8, <1>9

(* The moved socket is in the table, once. *)
LEMMA MoveLastExact ==
    ASSUME TypeInv, Exact, MoveLast
    PROVE  Exact'
<1> SUFFICES ASSUME Orderly'
             PROVE  (AppendCounts /\ RemovalCounts /\ Contents)'
  BY DEF Exact
<1> DEFINE i == worker.i
           n == worker.n
<1>1. Orderly /\ Contents
  BY DEF Exact, Orderly, MoveLast
<1>2. /\ UNCHANGED <<conn, total, accepter>>
      /\ \A x : NotYet(x)' <=> NotYet(x)
      /\ AppendCounts' /\ RemovalCounts'
      /\ Live = (0..n) \ {i} /\ Live' = 0..n - 1
      /\ i \in Nat /\ n \in Nat /\ i <= n
      /\ \A k \in 0..n - 1 : /\ k = i => n \in Live /\ arr'[k] = arr[n]
                             /\ k # i => k \in Live /\ arr'[k] = arr[k] /\ k # n
  BY <1>1, MoveLastLive DEF clients
<1>3. LiveOpen' /\ LiveOnce' /\ NewOpen'
  <2>1. LiveOpen'
    BY <1>1, <1>2 DEF Contents, LiveOpen
  <2>2. LiveOnce'
    BY <1>1, <1>2 DEF Contents, LiveOnce
  <2>3. NewOpen'
    BY <1>1, <1>2 DEF Contents, NewOpen
  <2> QED
    BY <2>1, <2>2, <2>3
<1>4. AllLive'
  <2>1. \A k \in Live : \E j \in 0..n - 1 : arr'[j] = arr[k]
    <3>1. SUFFICES ASSUME NEW k \in Live
                   PROVE  \E j \in 0..n - 1 : arr'[j] = arr[k]
      OBVIOUS
    <3>2. CASE k = n
      <4>1. i \in 0..n - 1
        BY <1>2, <3>2
      <4> QED
        BY <4>1, <1>2, <3>2
    <3>3. CASE k # n
      <4>1. k \in 0..n - 1 /\ k # i
        BY <1>2, <3>3
      <4> QED
        BY <4>1, <1>2
    <3> QED
      BY <3>2, <3>3
  <2> SUFFICES ASSUME NEW x \in Socket, conn[x] # "free", ~NotYet(x)
               PROVE  \E j \in 0..n - 1 : arr'[j] = x
    BY <1>2 DEF AllLive
  <2>2. PICK k \in Live : arr[k] = x
    BY <1>1 DEF Contents, AllLive
  <2> QED
    BY <2>1, <2>2
<1> QED
  BY <1>2, <1>3, <1>4 DEF Contents

(* The total is counted down to what counts. *)
LEMMA DecrementLive ==
    ASSUME TypeInv, Exact, Orderly, Decrement
    PROVE  /\ UNCHANGED <<clients, arr, accepter, fdread, upset>>
           /\ Live' = Live /\ \A x : NotYet(x)' <=> NotYet(x)
           /\ AppendCounts' /\ RemovalCounts'
           /\ worker.at = "move" /\ worker.i \in Nat /\ worker'.i \in {worker.i, worker.i + 1}
<1> DEFINE n == worker.n
<1>1. /\ UNCHANGED <<clients, arr, accepter, fdread, upset>>
      /\ worker.at = "move" /\ "total" \in worker.todo /\ total' = n
  BY DEF Decrement, TypeInv, WorkerTypes
<1>2. AppendCounts /\ RemovalCounts
  BY DEF Exact
<1>3. /\ worker.i \in Nat /\ n \in Nat /\ worker.i <= n
      /\ worker.todo \in SUBSET {"slot", "total"}
  BY <1>1, <1>2 DEF RemovalCounts, TypeInv, WorkerTypes, WorkerType
<1>4. accepter.at # "store" /\ \A x : NotYet(x)' <=> NotYet(x)
  BY <1>1, <1>2 DEF AppendCounts, NotYet
<1>5. Live' = Live /\ RemovalCounts' /\ worker'.i \in {worker.i, worker.i + 1}
  <2>1. CASE worker.todo = {"total"}
    <3>1. worker'.at = "serve" /\ worker'.i = worker.i + 1
      BY <1>1, <2>1 DEF Decrement, Moved, TypeInv, WorkerTypes, WorkerType
    <3> QED
      BY <3>1, <2>1, <1>1, <1>4 DEF Live, Size, RemovalCounts
  <2>2. CASE worker.todo # {"total"}
    <3>1. worker' = [worker EXCEPT !.todo = worker.todo \ {"total"}] /\ "slot" \in worker.todo
      BY <1>1, <1>3, <2>2 DEF Decrement, Moved
    <3>2. /\ worker'.at = "move" /\ "slot" \in worker'.todo /\ "total" \notin worker'.todo
          /\ worker'.n = n /\ worker'.i = worker.i
      BY <1>1, <3>1 DEF TypeInv, WorkerTypes, WorkerType
    <3> QED
      BY <3>1, <3>2, <1>1, <1>3 DEF Live, RemovalCounts
  <2> QED
    BY <2>1, <2>2
<1>6. AppendCounts'
  BY <1>1, <1>4 DEF AppendCounts
<1> QED
  BY <1>1, <1>3, <1>4, <1>5, <1>6

(* No connection gets lost by the store of the total. *)
LEMMA DecrementExact ==
    ASSUME TypeInv, Exact, Decrement
    PROVE  Exact'
<1> SUFFICES ASSUME Orderly'
             PROVE  (AppendCounts /\ RemovalCounts /\ Contents)'
  BY DEF Exact
<1>1. Orderly /\ Contents
  BY DEF Exact, Orderly, Decrement
<1>2. LiveOpen' /\ LiveOnce' /\ AllLive' /\ NewOpen'
  BY <1>1, DecrementLive DEF clients, Contents, LiveOpen, LiveOnce, AllLive, NewOpen
<1> QED
  BY <1>1, <1>2, DecrementLive DEF Contents

-------------------------------------------------------------------------------
(* What the worker may call recv on, as long as the threads have not upset *)
(* each other.                                                             *)
Readers ==
    upset = {} =>
        /\ worker.at \in {"collect", "select"} =>
              \A x \in fdread : x \in Socket /\ conn[x] # "free" /\ ~NotYet(x)
        /\ worker.at \in {"serve", "remove", "move"} =>
              /\ \A x \in fdread : ~NotYet(x)
              /\ \A k \in Live : k >= worker.i /\ arr[k] \in fdread => Readable(arr[k])

ConnInv == TypeInv /\ Exact /\ Readers

(* No step forgets that the threads have upset each other. *)
LEMMA UpsetStays == ASSUME [Next]_vars PROVE upset \subseteq upset'
BY DEF Next, vars, AcceptThread, WorkerThread, Send, Close, Accept, LoadTotal, StoreSlot, StoreTotal,
       CollectNext, CollectEnd, Select, Pass, Receive, Hangup, ServeEnd, Remove, MoveLast,
       Decrement, Again, Note, NoteTorn

(* Nobody is connected. *)
LEMMA ConnInit == Init => ConnInv
<1> SUFFICES ASSUME Init
             PROVE  Exact /\ Readers
  BY TypeInit DEF ConnInv
<1>1. Size = 0 /\ Live = {} /\ \A x : ~NotYet(x)
  BY DEF Init, Size, Live, NotYet
<1>2. AppendCounts /\ RemovalCounts
  BY DEF Init, AppendCounts, RemovalCounts
<1>3. Contents
  BY <1>1 DEF Init, Contents, LiveOpen, LiveOnce, AllLive, NewOpen
<1> QED
  BY <1>2, <1>3 DEF Init, Exact, Readers

(* Every step keeps what the table holds. *)
LEMMA ExactKept ==
    ASSUME TypeInv, Exact, [Next]_vars
    PROVE  Exact'
<1> USE UpsetStays
<1>1. CASE UNCHANGED vars
  BY <1>1, ExactFrame DEF vars
<1>2. ASSUME NEW s \in Socket, Send(s) PROVE Exact'
  BY <1>2, ExactFrame DEF Send, table
<1>3. ASSUME NEW s \in Socket, Close(s) PROVE Exact'
  <2>1. \A x \in Socket : conn'[x] = "free" <=> conn[x] = "free"
    BY <1>3 DEF Close, TypeInv, ClientTypes
  <2> QED
    BY <1>3, <2>1, ExactFrame DEF Close, table
<1>4. ASSUME Again, worker.at \in {"collect", "select", "serve"} PROVE Exact'
  <2>1. worker'.at = "collect"
    BY <1>4 DEF Again, TypeInv, WorkerTypes, WorkerType
  <2> QED
    BY <1>4, <2>1, ExactFrame DEF Again, table, clients
<1>5. CASE CollectNext \/ Pass \/ Receive
  <2>1. /\ UNCHANGED <<conn, arr, total, accepter>>
        /\ worker.at \in {"collect", "serve"} /\ worker' = [worker EXCEPT !.i = worker.i + 1]
    BY <1>5 DEF CollectNext, Pass, Receive, Serving, ToNext, table, clients
  <2>2. worker'.at = worker.at
    BY <2>1 DEF TypeInv, WorkerTypes, WorkerType
  <2> QED
    BY <2>1, <2>2, ExactFrame
<1>6. CASE CollectEnd
  <2>1. CASE Again
    BY <1>4, <1>6, <2>1 DEF CollectEnd
  <2>2. CASE /\ worker' = [worker EXCEPT !.at = "select", !.i = 0]
             /\ UNCHANGED <<clients, table, accepter, fdread, upset, overrun>>
    <3>1. worker'.at = "select"
      BY <2>2 DEF TypeInv, WorkerTypes, WorkerType
    <3> QED
      BY <1>6, <2>2, <3>1, ExactFrame DEF CollectEnd, table, clients
  <2> QED
    BY <1>6, <2>1, <2>2 DEF CollectEnd
<1>7. CASE Select
  <2>1. CASE Again
    BY <1>4, <1>7, <2>1 DEF Select
  <2>2. CASE /\ worker' = [worker EXCEPT !.at = "serve"]
             /\ UNCHANGED <<clients, table, accepter, upset, overrun>>
    <3>1. worker'.at = "serve"
      BY <2>2 DEF TypeInv, WorkerTypes, WorkerType
    <3> QED
      BY <1>7, <2>2, <3>1, ExactFrame DEF Select, table, clients
  <2> QED
    BY <1>7, <2>1, <2>2 DEF Select
<1>8. CASE ServeEnd
  BY <1>4, <1>8 DEF ServeEnd
<1> QED
  BY <1>1, <1>2, <1>3, <1>5, <1>6, <1>7, <1>8, AcceptExact, LoadTotalExact, StoreExact,
     HangupExact, RemoveExact, MoveLastExact, DecrementExact
     DEF Next, AcceptThread, WorkerThread

(* Who is in the set of readable sockets stays readable until the worker   *)
(* has passed its slot: the clients and the accept thread.                 *)
LEMMA AccepterKeepsReaders ==
    ASSUME ConnInv, [Next]_vars,
           \/ \E s \in Socket : Send(s) \/ Close(s) \/ Accept(s)
           \/ LoadTotal \/ StoreSlot \/ StoreTotal
    PROVE  Readers'
<1> SUFFICES ASSUME upset' = {}
             PROVE  Readers'
  BY DEF Readers
<1>1. upset = {} /\ Orderly /\ Orderly' /\ TypeInv /\ Exact /\ Readers
  BY UpsetStays DEF Orderly, ConnInv
<1>2. Contents
  BY <1>1 DEF Exact
<1>3. ASSUME NEW s \in Socket, Send(s) \/ Close(s) PROVE Readers'
  <2>1. UNCHANGED <<arr, total, accepter, worker, fdread>>
    BY <1>3 DEF Send, Close, table
  <2>2. \A x \in Socket : /\ conn[x] # "free" => conn'[x] # "free"
                          /\ Readable(x) => Readable(x)'
    BY <1>1, <1>3 DEF Send, Close, Readable, TypeInv, ClientTypes
  <2>3. Live' = Live /\ \A x : NotYet(x)' <=> NotYet(x)
    BY <2>1 DEF Live, Size, NotYet
  <2> QED
    BY <1>1, <1>2, <2>1, <2>2, <2>3 DEF Readers, Contents, LiveOpen
<1>4. ASSUME NEW s \in Socket, Accept(s) PROVE Readers'
  <2>1. /\ UNCHANGED <<pending, arr, total, worker, fdread>>
        /\ accepter.at = "accept" /\ accepter'.at = "append" /\ accepter'.socket = s
        /\ conn[s] = "free" /\ \A x \in Socket \ {s} : conn'[x] = conn[x]
        /\ ~(worker.at \in {"serve", "remove", "move"} /\ s \in fdread)
    BY <1>1, <1>4 DEF Accept, Note, table, TypeInv, AccepterTypes, AccepterType, ClientTypes
  <2>2. Live' = Live /\ \A x : NotYet(x)' <=> x = s
    BY <2>1 DEF Live, Size, NotYet
  <2>3. \A k \in Live : arr[k] \in Socket \ {s}
    BY <1>2, <2>1 DEF Contents, LiveOpen
  <2>4. \A k \in Live : Readable(arr[k])' <=> Readable(arr[k])
    BY <2>1, <2>3 DEF Readable
  <2> QED
    BY <1>1, <2>1, <2>2, <2>4 DEF Readers
<1>5. CASE LoadTotal
  <2>1. /\ UNCHANGED <<clients, arr, worker, fdread>>
        /\ Live' = Live /\ \A x : NotYet(x)' <=> NotYet(x)
    BY <1>1, <1>5, LoadTotalLive
  <2> QED
    BY <1>1, <2>1 DEF Readers, Readable, clients
<1>6. CASE StoreSlot \/ StoreTotal
  <2>1. /\ UNCHANGED <<clients, worker, fdread>>
        /\ \A k \in Live : arr'[k] = arr[k]
        /\ \/ Live' = Live /\ \A x : NotYet(x)' <=> NotYet(x)
           \/ /\ accepter.n \notin Live /\ Live' = Live \cup {accepter.n}
              /\ arr'[accepter.n] = accepter.socket
              /\ \A x : ~NotYet(x)' /\ (NotYet(x) <=> x = accepter.socket)
    BY <1>1, <1>6, StoreLive
  <2> QED
    BY <1>1, <2>1 DEF Readers, Readable, clients
<1> QED
  BY <1>3, <1>4, <1>5, <1>6

(* The worker takes everybody out of the set whom recv would wait for, and *)
(* comes to no slot twice.                                                 *)
LEMMA WorkerKeepsReaders ==
    ASSUME ConnInv, [Next]_vars, WorkerThread
    PROVE  Readers'
<1> SUFFICES ASSUME upset' = {}
             PROVE  Readers'
  BY DEF Readers
<1>1. upset = {} /\ Orderly /\ Orderly' /\ TypeInv /\ Exact /\ Readers
  BY UpsetStays DEF Orderly, ConnInv
<1>2. Contents
  BY <1>1 DEF Exact
<1>3. worker \in WorkerType /\ worker.i \in Nat
  BY <1>1 DEF TypeInv, WorkerTypes, WorkerType
<1>4. CASE Again
  <2>1. worker'.at = "collect" /\ fdread' = {}
    BY <1>3, <1>4 DEF Again, WorkerType
  <2> QED
    BY <2>1 DEF Readers
<1>5. CASE CollectNext
  <2>1. UNCHANGED <<conn, accepter>> /\ fdread' = fdread \cup {arr[worker.i]}
        /\ worker.at = "collect" /\ AtIndex /\ ~Torn
    BY <1>5 DEF CollectNext, NoteTorn, Note, clients
  <2>2. worker'.at = "collect"
    BY <1>3, <1>5 DEF CollectNext, WorkerType
  <2>3. worker.i \in Live
    BY <1>1, <2>1, CurrentIsLive
  <2> QED
    BY <1>1, <1>2, <2>1, <2>2, <2>3 DEF Readers, Contents, LiveOpen, NotYet
<1>6. CASE CollectEnd
  <2>1. CASE worker' = [worker EXCEPT !.at = "select", !.i = 0]
             /\ UNCHANGED <<clients, table, accepter, fdread, upset, overrun>>
    <3>1. worker'.at = "select" /\ UNCHANGED <<conn, accepter, fdread>>
      BY <1>3, <2>1 DEF WorkerType, clients
    <3> QED
      BY <1>1, <1>6, <3>1 DEF CollectEnd, Readers, NotYet
  <2> QED
    BY <1>4, <1>6, <2>1 DEF CollectEnd
<1>7. CASE Select
  <2>1. CASE /\ fdread' = Selected
             /\ worker' = [worker EXCEPT !.at = "serve"]
             /\ UNCHANGED <<clients, table, accepter, upset, overrun>>
    <3>1. worker'.at = "serve" /\ UNCHANGED <<conn, pending, arr, total, accepter>>
      BY <1>3, <2>1 DEF WorkerType, clients, table
    <3>2. \A x \in fdread' : x \in fdread /\ Readable(x)
      BY <2>1 DEF Selected
    <3>3. \A x : (NotYet(x)' <=> NotYet(x)) /\ (Readable(x)' <=> Readable(x))
      BY <3>1 DEF NotYet, Readable
    <3>4. \A x \in fdread' : ~NotYet(x)
      BY <1>1, <1>7, <3>2 DEF Select, Readers
    <3> QED
      BY <3>1, <3>2, <3>3, <3>4 DEF Readers
  <2> QED
    BY <1>4, <1>7, <2>1 DEF Select
<1>8. CASE Pass \/ Receive
  <2>1. /\ UNCHANGED <<conn, arr, total, accepter, fdread>>
        /\ worker.at = "serve" /\ AtIndex /\ ~Torn
        /\ worker' = [worker EXCEPT !.i = worker.i + 1]
    BY <1>8 DEF Pass, Receive, Serving, ToNext, NoteTorn, Note, clients, table
  <2>2. worker'.at = "serve" /\ worker'.i = worker.i + 1
    BY <1>3, <2>1 DEF WorkerType
  <2>3. worker.i \in Live
    BY <1>1, <2>1, CurrentIsLive
  <2>4. Live' = Live /\ \A x : NotYet(x)' <=> NotYet(x)
    BY <2>1, <2>2 DEF Live, Size, NotYet
  <2>5. ASSUME NEW k \in Live, k >= worker.i + 1, arr[k] \in fdread
        PROVE  Readable(arr[k])'
    <3>1. k \in Nat
      BY <1>1, <2>5, LiveSlots, ConnAssumption DEF Exact, Slot
    <3>2. Readable(arr[k])
      BY <1>1, <1>3, <2>1, <2>5, <3>1 DEF Readers
    <3>3. arr[k] # Current /\ arr[k] \in Socket
      BY <1>2, <1>3, <2>3, <2>5, <3>1 DEF Contents, LiveOpen, LiveOnce, Current
    <3>4. pending'[arr[k]] = pending[arr[k]]
      BY <1>1, <1>8, <3>3 DEF Pass, Receive, clients, TypeInv, ClientTypes
    <3> QED
      BY <2>1, <3>2, <3>4 DEF Readable
  <2> QED
    BY <1>1, <2>1, <2>2, <2>4, <2>5 DEF Readers
<1>9. CASE Hangup
  <2>1. /\ UNCHANGED <<pending, arr, fdread>>
        /\ worker'.at = "remove" /\ worker.at = "serve" /\ worker'.i = worker.i
        /\ Live' = Live \ {worker.i} /\ \A x : NotYet(x)' <=> NotYet(x)
        /\ \A x \in Socket \ {Current} : conn'[x] = conn[x]
        /\ \A k \in Live' : arr[k] # Current
    BY <1>1, <1>9, HangupLive
  <2>2. \A k \in Live' : Readable(arr[k])' <=> Readable(arr[k])
    BY <1>2, <2>1 DEF Readable, Contents, LiveOpen
  <2> QED
    BY <1>1, <2>1, <2>2 DEF Readers
<1>10. CASE Remove
  <2>1. /\ UNCHANGED <<clients, arr, fdread>>
        /\ Live' = Live /\ \A x : NotYet(x)' <=> NotYet(x)
        /\ worker.at = "remove" /\ worker'.at = "move" /\ worker'.i = worker.i
    BY <1>1, <1>10, RemoveLive
  <2> QED
    BY <1>1, <2>1 DEF Readers, Readable, clients
<1>11. CASE MoveLast
  <2> DEFINE i == worker.i
             n == worker.n
  <2>1. /\ UNCHANGED <<clients, fdread>>
        /\ \A x : NotYet(x)' <=> NotYet(x)
        /\ Live' = 0..n - 1
        /\ n \in Nat /\ i <= n /\ worker'.i \in {i, i + 1}
        /\ \A k \in 0..n - 1 : /\ k = i => n \in Live /\ arr'[k] = arr[n]
                               /\ k # i => k \in Live /\ arr'[k] = arr[k]
        /\ worker.at = "move"
    BY <1>1, <1>11, MoveLastLive
  <2>2. \A x \in fdread : ~NotYet(x)
    BY <1>1, <2>1 DEF Readers
  <2>3. \A k \in Live : k >= i /\ arr[k] \in fdread => Readable(arr[k])
    BY <1>1, <2>1 DEF Readers
  <2>4. ASSUME NEW k \in 0..n - 1, k >= worker'.i, arr'[k] \in fdread
        PROVE  Readable(arr'[k])
    <3>1. k \in Nat /\ k >= i /\ n >= i
      BY <1>3, <2>1, <2>4
    <3> QED
      BY <2>1, <2>3, <2>4, <3>1
  <2>5. \A x : Readable(x)' <=> Readable(x)
    BY <2>1 DEF Readable, clients
  <2>6. worker'.at \in {"serve", "move"}
    BY <1>3, <1>11, <2>1 DEF MoveLast, Moved, WorkerType
  <2> QED
    BY <2>1, <2>2, <2>4, <2>5, <2>6 DEF Readers
<1>12. CASE Decrement
  <2>1. /\ UNCHANGED <<clients, arr, fdread>>
        /\ Live' = Live /\ \A x : NotYet(x)' <=> NotYet(x)
        /\ worker.at = "move" /\ worker'.i \in {worker.i, worker.i + 1}
    BY <1>1, <1>12, DecrementLive
  <2>2. Live \subseteq Nat
    BY <1>1, LiveSlots, ConnAssumption DEF Exact, Slot
  <2> QED
    <3>1. worker'.at \in {"serve", "move"}
      BY <1>3, <1>12, <2>1 DEF Decrement, Moved, WorkerType
    <3>2. /\ \A x \in fdread : ~NotYet(x)
          /\ \A k \in Live : k >= worker.i /\ arr[k] \in fdread => Readable(arr[k])
      BY <1>1, <2>1 DEF Readers
    <3>3. \A k \in Live : k >= worker'.i => k >= worker.i
      BY <1>3, <2>1, <2>2
    <3> QED
      BY <2>1, <3>1, <3>2, <3>3 DEF Readers, Readable, clients
<1>13. CASE ServeEnd
  BY <1>4, <1>13 DEF ServeEnd
<1> QED
  BY <1>5, <1>6, <1>7, <1>8, <1>9, <1>10, <1>11, <1>12, <1>13 DEF WorkerThread

(* The inductive invariant. *)
LEMMA ConnKept == ConnInv /\ [Next]_vars => ConnInv'
<1> SUFFICES ASSUME ConnInv, [Next]_vars
             PROVE  ConnInv'
  OBVIOUS
<1>1. TypeInv' /\ Exact'
  BY TypeKept, ExactKept DEF ConnInv
<1>2. Readers'
  <2>1. CASE UNCHANGED vars
    <3>1. Live' = Live /\ \A x : (NotYet(x)' <=> NotYet(x)) /\ (Readable(x)' <=> Readable(x))
      BY <2>1 DEF vars, Live, Size, NotYet, Readable
    <3> QED
      BY <2>1, <3>1 DEF vars, ConnInv, Readers
  <2>2. CASE Next
    BY <2>2, AccepterKeepsReaders, WorkerKeepsReaders DEF Next, AcceptThread
  <2> QED
    BY <2>1, <2>2
<1> QED
  BY <1>1, <1>2 DEF ConnInv

(* The inductive invariant holds in every reachable state. *)
THEOREM ConnInvariance == Spec => []ConnInv
BY ConnInit, ConnKept, PTL DEF Spec

-------------------------------------------------------------------------------
(* At rest the slots that count are those below the total. *)
LEMMA ExactAtRest == ConnInv => TableExact
<1> SUFFICES ASSUME ConnInv, AtRest, Orderly
             PROVE  Listed = Active /\ Cardinality(Listed) = total
  BY DEF TableExact, Orderly
<1>1. Contents /\ TypeInv
  BY DEF ConnInv, Exact
<1>2. Live = 0..total - 1 /\ total \in Nat
  BY <1>1 DEF AtRest, Live, Size, TypeInv, TableTypes
<1>3. \A s \in Socket : NotYet(s) <=> accepter.at = "append" /\ accepter.socket = s
  BY <1>1 DEF NotYet, AtRest, TypeInv, AccepterTypes, AccepterType
<1>4. Listed = Active
  BY <1>1, <1>2, <1>3 DEF Listed, Active, Contents, LiveOpen, AllLive
<1>5. Cardinality(Listed) = total
  <2> DEFINE index == 0..total - 1
             f == [k \in index |-> arr[k]]
  <2>1. f \in Bijection(index, Listed)
    <3>1. f \in [index -> Listed]
      BY DEF Listed
    <3>2. \A j, k \in index : f[j] = f[k] => j = k
      BY <1>1, <1>2 DEF Contents, LiveOnce
    <3>3. \A x \in Listed : \E k \in index : f[k] = x
      BY DEF Listed
    <3> QED
      BY <3>1, <3>2, <3>3, Fun_IsBij
  <2>2. ExistsBijection(index, Listed)
    BY <2>1 DEF ExistsBijection
  <2>3. IsFiniteSet(index) /\ Cardinality(index) = total
    BY <1>2, FS_Interval
  <2> QED
    BY <2>2, <2>3, FS_Bijection
<1> QED
  BY <1>4, <1>5

(* Between appends and removals that have not overlapped, the array lists  *)
(* the open connections, each once, however often sockets come back.       *)
THEOREM TableIsExact == Spec => []TableExact
BY ConnInvariance, ExactAtRest, PTL

(* recv is never called on a socket it would wait for, as long as the      *)
(* threads have not upset each other.                                      *)
THEOREM NoRecvWaits == Spec => []RecvReturns
<1>1. ConnInv => RecvReturns
  <2> SUFFICES ASSUME ConnInv, Serving, upset = {}, ~Torn, Current \in fdread
               PROVE  Readable(Current)
    BY DEF RecvReturns
  <2>1. worker.i \in Live /\ worker.i \in Nat
    BY CurrentIsLive DEF ConnInv, Orderly, Serving, TypeInv, WorkerTypes, WorkerType
  <2> QED
    BY <2>1 DEF ConnInv, Readers, Serving, Current
<1> QED
  BY <1>1, ConnInvariance, PTL
===============================================================================

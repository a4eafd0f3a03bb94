------------------------------ MODULE ConnTable -------------------------------
(***************************************************************************)
(* CServer's table of connections, g_CliSocketArr with g_iTotalConn, which *)
(* the accept thread appends to and the worker thread removes from without *)
(* a lock.  Every load and every store of the two is a step.  A socket is  *)
(* the number the system hands out; it may come back once it is closed.    *)
(***************************************************************************)
EXTENDS Integers, FiniteSets

CONSTANTS
    Socket,
    Capacity,   \* FD_SETSIZE (64)
    NULL,       \* what a slot holds before it was first written
    Watched,    \* the sockets the liveness properties are about
    Followed    \* a bound: an instance goes on only after these members of Upset

VARIABLES
    conn,       \* the connection behind each number
    pending,    \* the client has sent something the server has not received
    arr,        \* g_CliSocketArr
    total,      \* g_iTotalConn
    accepter,   \* where StartCServer is, with its socket and its copy of total
    worker,     \* where WorkerThread is, with its i and its copy of total
    fdread,     \* the worker's fd_set
    upset,      \* history: what the two threads did to each other
    overrun     \* a connection was stored behind the end of the array

vars == <<conn, pending, arr, total, accepter, worker, fdread, upset, overrun>>
clients == <<conn, pending>>
table == <<arr, total>>

Slot == 0..Capacity - 1

(* "aborted": recv fails, but not with WSAECONNRESET. *)
Conn == {"free", "up", "closed", "aborted"}

(* "append": append and removal overlapped.  "torn": the worker read a     *)
(* slot that was counted and not yet written.  "reuse": a number that the  *)
(* set of readable sockets still has was handed out again.                 *)
Upset == {"append", "torn", "reuse"}

ASSUME ConnAssumption ==
    /\ Capacity \in Nat \ {0}
    /\ NULL \notin Socket
    /\ Watched \subseteq Socket
    /\ Followed \subseteq Upset

Init ==
    /\ conn = [s \in Socket |-> "free"]
    /\ pending = [s \in Socket |-> FALSE]
    /\ arr = [k \in Slot |-> NULL]
    /\ total = 0
    /\ accepter = [at |-> "accept", socket |-> NULL, n |-> 0, todo |-> {}]
    /\ worker = [at |-> "collect", i |-> 0, n |-> 0, todo |-> {}]
    /\ fdread = {}
    /\ upset = {}
    /\ overrun = FALSE

TypeOK ==
    /\ conn \in [Socket -> Conn]
    /\ pending \in [Socket -> BOOLEAN]
    /\ arr \in [Slot -> Socket \cup {NULL}]
    /\ total \in 0..Capacity
    /\ accepter \in [at : {"accept", "append", "store"}, socket : Socket \cup {NULL},
                     n : Slot, todo : SUBSET {"slot", "total"}]
    /\ worker \in [at : {"collect", "select", "serve", "remove", "move"}, i : 0..Capacity,
                   n : 0..Capacity, todo : SUBSET {"slot", "total"}]
    /\ fdread \in SUBSET (Socket \cup {NULL})
    /\ upset \in SUBSET Upset
    /\ overrun \in BOOLEAN

Note(what, happened) == upset' = IF happened THEN upset \cup {what} ELSE upset

-------------------------------------------------------------------------------
(* The clients *)

Send(s) ==
    /\ conn[s] = "up" /\ ~pending[s]
    /\ pending' = [pending EXCEPT ![s] = TRUE]
    /\ UNCHANGED <<conn, table, accepter, worker, fdread, upset, overrun>>

(* An orderly close lets the server read what was sent before, others not. *)
Close(s) ==
    /\ conn[s] = "up"
    /\ \/ conn' = [conn EXCEPT ![s] = "closed"] /\ UNCHANGED pending
       \/ /\ conn' \in {[conn EXCEPT ![s] = "closed"], [conn EXCEPT ![s] = "aborted"]}
          /\ pending' = [pending EXCEPT ![s] = FALSE]
    /\ UNCHANGED <<table, accepter, worker, fdread, upset, overrun>>

-------------------------------------------------------------------------------
(* The accept thread: g_CliSocketArr[g_iTotalConn++] = clientSocket *)

Accept(s) ==
    /\ accepter.at = "accept"
    /\ conn[s] = "free"
    /\ conn' = [conn EXCEPT ![s] = "up"]
    /\ accepter' = [accepter EXCEPT !.at = "append", !.socket = s]
    /\ Note("reuse", worker.at \in {"serve", "remove", "move"} /\ s \in fdread)
    /\ UNCHANGED <<pending, table, worker, fdread, overrun>>

(* There is no test of g_iTotalConn: behind the last slot is other memory, *)
(* and what happens then is not defined.                                   *)
LoadTotal ==
    /\ accepter.at = "append"
    /\ IF total = Capacity
         THEN /\ overrun' = TRUE
              /\ UNCHANGED <<accepter, upset>>
         ELSE /\ accepter' = [accepter EXCEPT !.at = "store", !.n = total,
                                              !.todo = {"slot", "total"}]
              /\ Note("append", worker.at = "move")
              /\ UNCHANGED overrun
    /\ UNCHANGED <<clients, table, worker, fdread>>

(* The slot and the total are stored in either order. *)
Stored(what) ==
    accepter' = IF accepter.todo = {what}
                  THEN [accepter EXCEPT !.at = "accept", !.n = 0, !.socket = NULL, !.todo = {}]
                  ELSE [accepter EXCEPT !.todo = accepter.todo \ {what}]

StoreSlot ==
    /\ "slot" \in accepter.todo
    /\ arr' = [arr EXCEPT ![accepter.n] = accepter.socket]
    /\ Stored("slot")
    /\ UNCHANGED <<clients, total, worker, fdread, upset, overrun>>

StoreTotal ==
    /\ "total" \in accepter.todo
    /\ total' = accepter.n + 1
    /\ Stored("total")
    /\ UNCHANGED <<clients, arr, worker, fdread, upset, overrun>>

-------------------------------------------------------------------------------
(* The worker thread *)

AtIndex == worker.i < total

(* Slot i is counted and not yet written. *)
Torn == accepter.todo = {"slot"} /\ worker.i = accepter.n
NoteTorn == Note("torn", Torn)

CollectNext ==
    /\ worker.at = "collect" /\ AtIndex
    /\ fdread' = fdread \cup {arr[worker.i]}
    /\ worker' = [worker EXCEPT !.i = worker.i + 1]
    /\ NoteTorn
    /\ UNCHANGED <<clients, table, accepter, overrun>>

Again ==
    /\ worker' = [worker EXCEPT !.at = "collect", !.i = 0]
    /\ fdread' = {}
    /\ UNCHANGED <<clients, table, accepter, upset, overrun>>

(* With a full set the worker starts over and calls select no more. *)
CollectEnd ==
    /\ worker.at = "collect" /\ ~AtIndex
    /\ IF Cardinality(fdread) >= Capacity
         THEN Again
         ELSE /\ worker' = [worker EXCEPT !.at = "select", !.i = 0]
              /\ UNCHANGED <<clients, table, accepter, fdread, upset, overrun>>

Open(x) == x # NULL /\ conn[x] # "free"
Readable(s) == pending[s] \/ conn[s] \in {"closed", "aborted"}

(* Mutant of Selected: select does not take out the quiet sockets. *)
SelectedAll == IF \E x \in fdread : Open(x) /\ Readable(x) THEN fdread ELSE {}

(* select fails on a set without sockets or with one that is not open, and *)
(* leaves those that recv would not block on.                              *)
Selected ==
    IF \A x \in fdread : Open(x) THEN {x \in fdread : Readable(x)} ELSE {}

Select ==
    /\ worker.at = "select"
    /\ IF Selected = {}
         THEN Again
         ELSE /\ fdread' = Selected
              /\ worker' = [worker EXCEPT !.at = "serve"]
              /\ UNCHANGED <<clients, table, accepter, upset, overrun>>

(* recv would fail, but not with WSAECONNRESET. *)
Fails(x) == x # NULL => conn[x] \in {"free", "aborted"}

Current == arr[worker.i]
Serving == worker.at = "serve" /\ AtIndex
ToNext == worker' = [worker EXCEPT !.i = worker.i + 1]

(* Mutant of Pass: a failing recv ends the round. *)
PassEnds ==
    /\ Serving
    /\ \/ Current \notin fdread /\ ToNext /\ UNCHANGED fdread
       \/ Current \in fdread /\ Fails(Current)
          /\ worker' = [worker EXCEPT !.at = "collect", !.i = 0] /\ fdread' = {}
    /\ NoteTorn
    /\ UNCHANGED <<clients, table, accepter, overrun>>

(* FD_ISSET says no, or recv fails and the connection stays in the table.  *)
Pass ==
    /\ Serving
    /\ Current \in fdread => Fails(Current)
    /\ ToNext
    /\ NoteTorn
    /\ UNCHANGED <<clients, table, accepter, fdread, overrun>>

(* A message: it is handled before the loop goes on. *)
Receive ==
    /\ Serving
    /\ Current \in fdread /\ Open(Current) /\ pending[Current]
    /\ pending' = [pending EXCEPT ![Current] = FALSE]
    /\ ToNext
    /\ NoteTorn
    /\ UNCHANGED <<conn, table, accepter, fdread, overrun>>

(* Mutant of Hangup: closesocket is forgotten. *)
HangupOpen ==
    /\ Serving
    /\ Current \in fdread /\ Open(Current) /\ ~pending[Current] /\ conn[Current] = "closed"
    /\ worker' = [worker EXCEPT !.at = "remove"]
    /\ NoteTorn
    /\ UNCHANGED <<clients, table, accepter, fdread, overrun>>

(* recv says that the client is gone: closesocket.  The entity stays. *)
Hangup ==
    /\ Serving
    /\ Current \in fdread /\ Open(Current) /\ ~pending[Current] /\ conn[Current] = "closed"
    /\ conn' = [conn EXCEPT ![Current] = "free"]
    /\ worker' = [worker EXCEPT !.at = "remove"]
    /\ NoteTorn
    /\ UNCHANGED <<pending, table, accepter, fdread, overrun>>

(* g_CliSocketArr[i] = g_CliSocketArr[--g_iTotalConn]; then i++, past the  *)
(* socket that was moved here.                                             *)
Remove ==
    /\ worker.at = "remove"
    /\ worker' = [worker EXCEPT !.at = "move", !.n = total - 1, !.todo = {"slot", "total"}]
    /\ Note("append", accepter.at = "store")
    /\ UNCHANGED <<clients, table, accepter, fdread, overrun>>

Moved(what) ==
    worker' = IF worker.todo = {what}
                THEN [worker EXCEPT !.at = "serve", !.i = worker.i + 1, !.n = 0, !.todo = {}]
                ELSE [worker EXCEPT !.todo = worker.todo \ {what}]

(* Mutant of MoveLast: the hole stays. *)
MoveNothing ==
    /\ "slot" \in worker.todo
    /\ Moved("slot")
    /\ UNCHANGED <<clients, table, accepter, fdread, upset, overrun>>

MoveLast ==
    /\ "slot" \in worker.todo
    /\ arr' = [arr EXCEPT ![worker.i] = arr[worker.n]]
    /\ Moved("slot")
    /\ UNCHANGED <<clients, total, accepter, fdread, upset, overrun>>

(* Mutant of Decrement: counted down twice. *)
DecrementTwice ==
    /\ "total" \in worker.todo
    /\ total' = worker.n - 1
    /\ Moved("total")
    /\ UNCHANGED <<clients, arr, accepter, fdread, upset, overrun>>

Decrement ==
    /\ "total" \in worker.todo
    /\ total' = worker.n
    /\ Moved("total")
    /\ UNCHANGED <<clients, arr, accepter, fdread, upset, overrun>>

ServeEnd == worker.at = "serve" /\ ~AtIndex /\ Again

-------------------------------------------------------------------------------
Going == ~overrun /\ upset \subseteq Followed

AcceptThread == Going /\ (LoadTotal \/ StoreSlot \/ StoreTotal)

WorkerThread ==
    /\ Going
    /\ \/ CollectNext \/ CollectEnd \/ Select
       \/ Pass \/ Receive \/ Hangup \/ ServeEnd
       \/ Remove \/ MoveLast \/ Decrement

Next ==
    \/ \E s \in Socket : Going /\ (Send(s) \/ Close(s) \/ Accept(s))
    \/ AcceptThread
    \/ WorkerThread

(* Both threads are loops of the process; clients need not do anything. *)
Spec == Init /\ [][Next]_vars /\ WF_vars(AcceptThread) /\ WF_vars(WorkerThread)

-------------------------------------------------------------------------------
Listed == {arr[k] : k \in 0..total - 1}

(* The sockets that are open, but for the one accept has just returned. *)
Active ==
    {s \in Socket : conn[s] # "free" /\ ~(accepter.at = "append" /\ accepter.socket = s)}

AtRest == accepter.at # "store" /\ worker.at \notin {"remove", "move"}

(* Between appends and removals the table lists exactly the open sockets,  *)
(* each once, unless a removal has overlapped an append: the swap of the   *)
(* last entry into the hole loses and doubles none, and a socket number    *)
(* that comes back before its removal is finished does no harm.            *)
TableExact ==
    AtRest /\ upset \subseteq {"reuse"} =>
        /\ Listed = Active
        /\ Cardinality(Listed) = total

(* The worker never calls recv on a socket that has nothing to read, where *)
(* it would wait for that one client while all others wait for it: not     *)
(* after a swap either, which brings a socket to a place in the loop where *)
(* it might come up twice.  (Unless the threads have upset each other.)    *)
RecvReturns ==
    Serving /\ upset = {} /\ ~Torn /\ Current \in fdread => Readable(Current)

(* The worker collects a table that has become full: it does nothing else  *)
(* from then on.                                                           *)
Stuck == worker.at = "collect" /\ total = Capacity

(* What a client sends is received in the end, however many connections    *)
(* come and go meanwhile: the skipping of the socket that was moved is     *)
(* made up for by another round, and FD_SETSIZE connections do no harm if  *)
(* one of them goes in the round in which the last one comes.              *)
PendingReceived ==
    \A s \in Watched : pending[s] ~> ~pending[s] \/ Stuck \/ upset # {}

(* A client that is gone does not keep its slot. *)
ClosedRemoved ==
    \A s \in Watched :
        conn[s] = "closed" ~> conn[s] # "closed" \/ Stuck \/ upset # {}

(* Server.h:44: the array holds all sockets that are active. *)
AllActiveStored == AtRest => Active \subseteq Listed
===============================================================================

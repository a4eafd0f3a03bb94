# JiraGame server: TLA+ models and proofs

The repository is a C++ (Winsock) server of a small team game, `src/DNW_Server/Server`.
Players register, log in, choose a role, meet in rooms of two teams with three seats each,
turn a ready switch and play; the server keeps the rooms and relays the players'
attributes. This directory models the parts of the program that decide something: the
rooms and the entities of the connected clients, the timers that take silent clients out,
the table of connections, and accounts with their roles and sessions. Vendored and
generated code (Protocol Buffers, SQLite, JSON) is left aside.

Paths below are relative to `src/DNW_Server/Server`.

## 1. Inventory

**Threads.** `CServer` runs an *accept* thread (`Server/Server.cpp:186`) and one *worker*
thread that `select`s over an array of sockets, receives, and runs the handler of the
message to its end (`Server.cpp:37`). `CClientEntity::SetTimerMutex` starts one detached
*timer* thread per client, at the client's first heartbeat. There is not one lock.

| Component | State | Operations | What makes it hard |
|---|---|---|---|
| `CServer` (`Server/`) | array of sockets, `g_iTotalConn`, receive buffer, `g_bExit` | accept, close, receive, dispatch | the array is changed by two threads; socket numbers come back while the old entity is still cached; a full `FD_SETSIZE`; no framing |
| `CCache` (`Cache/`) | `m_mCClientEntity` (socket to entity), `m_mEntityRoom` (id to room) | find, insert, erase, append a player | shared by all threads; a lookup returns a raw pointer or NULL |
| `CClientEntity` (`ClientEntity/`) | the player's `roleInfo`, session, `isBroken`, `m_iSendMsgCount`, `m_HasThread`, `m_ThreadPower` | start and stop the timer | one object per socket number, not per connection; the timers share a `static preTime` |
| `CHallScene` (`GameLogic/SceneChain/`) | none of its own | CreateRoom, JoinTeam (an accepted invitation), JoinRoom, LeaveRoom, GameWaite, GameStart; RequestTeam, OnlineFriend, GetRoomList only read | rooms are rebuilt by copying; the entry in the room and the entity say the same things twice |
| `CMainScene` | none | RsyncAttr, RsyncStatus, GameOver | what the client sends overwrites the entity |
| `CKeepAlive` | `keepAliveInfoMap` | Start (heartbeat), TimerFunc, LeaveRoom | thresholds 3, 10 and 30 of a counter; the map keeps pointers to deleted objects |
| `CSelectScene`, `CLoginScene`, `CRegisterScene`, `CCreateScene`, `CDBServer` | SQLite tables of users, players and sessions | register, log in, create and select a role | several statements without a transaction; a second login replaces the session |
| `CJiraEvent` | listeners by socket | send, add, remove | a message to a socket without a listener is dropped |

**What must be right.** For rooms: no two players on a seat; `freepersoncount`, which is
only ever added to and subtracted from, is the truth, because LeaveRoom deletes the room
by comparing it with `personcount`; a player is in one room, once; entry and entity agree;
a room has one captain and the captain's entity knows, or LeaveRoom leaves the room
without one; a game starts with players who said so in that room. For timers: a silent
client is taken out of the lobby, and evicted in the end, and no client is counted silent
too fast.
For connections: the table lists the open sockets, and what is sent is received. For
accounts: what a user was told lasts, and roles belong to users. For the process: no
handler dereferences what a lookup did not find. `PROJECT.json` lists the hazards at their
lines.

## 2. Modules

| Module | Models | State and actions |
|---|---|---|
| `RoomInfo` | `RoomInfo`, `PlayerInfo` and what leaving does to a list of players | no state; `Seated` (EntityRoomAddMember), `FirstIdle` (the seat JoinRoom gives), `Keep`, `Promote`, `Rebuilt` (the copying loops), `LastLeaves` |
| `Cache` | `CCache` | `cache`, `entity`, `rooms`; `fault`: a NULL dereference ends the process |
| `HallScene` | the lobby's handlers | one action per handler that changes state, each with all its branches; `JoinRoom` into a room that lists the player is a leave (`Rejoin`); `LeaveOwnRoom` is the body `CHallScene::LeaveRoom` and `CKeepAliveInfo::LeaveRoom` share |
| `MainScene` | `CMainScene` | `Rsync` (RsyncAttr and RsyncStatus: the entity's captain flag, seat and switch become whatever the client sends), `GameOver` |
| `RoomProperties` | nothing of its own | what is kept true of rooms, and the instance of `RoomRegistry` under the mapping `PartyView` (each room as its list of roleids), stated once for the modules below |
| `RoomRegistry` | abstract: what the lobby promises | lists of users that open, gain one, lose one, close |
| `KeepAlive` | `CKeepAlive` and the counter of `CClientEntity` | `Heartbeat`, `TimerFunc` (one run of the function, by its four ranges of the count) |
| `GameServer` | accept, role choice, dispatch: the composition | `Connect`, `Reconnect`, `SelectRole`, `Lobby`, `Game` |
| `Readiness` | the switch and the start of a game, among all requests of lobby and game | `Create`, `Join`, `Leave`, `Switch` (GameWaite), `Sync` (RsyncAttr, RsyncStatus), `Start`, `Finish`; histories: whether a player has set the switch in the room it is in (`pressed`), and the rooms sent the list to start with (`started`) |
| `RoomRace` | the lobby with timers that work at the same time | a timer's `LeaveRoom` is `Begin`, `Copy`, `Out`, `Remove`, `Insert` (or `Begin`, `RemoveLast`), a join of the worker is `BeginJoin`, `AddMember`; history `raced`: the rooms several threads worked on at once |
| `Timers` | `SetTimerMutex`, its threads, and what stops them | `elapsed` (the shared `preTime`), `m_ThreadPower`, `m_HasThread`, the count, the deleted argument, the place of each thread; the count is read and written in two steps |
| `ConnTable` | `StartCServer` and `WorkerThread` on `g_CliSocketArr` and `g_iTotalConn` | every load and store of the two threads, `select` and the outcomes of `recv`; history `upset`: what the threads did to each other |
| `Accounts` | the scenes of register, login, create and select, over `CDBServer`'s tables | `RegisterInsert`, `RegisterLink`, `Login`, `CreateRole`, `SelectRole`, and `Crash` anywhere |
| `HandlerProofs`, `CoherenceProofs`, `GameServerProofs`, `ReadinessProofs`, `RoomRaceProofs`, `AccountsProofs`, `ConnTableProofs`, `TimersProofs` | | lemmas and theorems, section 4 |
| `MCGameServer`, `MCReadiness`, `MCRoomRace`, `MCTimers`, `MCConnTable`, `MCAccounts` | | symmetry; `MCRoomRace` also checks `Keep` against `SelectSeq` |

`RoomInfo` <- `Cache` <- `HallScene` <- `MainScene` extend each other. On top of
`MainScene` are `RoomProperties` and `KeepAlive`, which `GameServer` puts together;
`Readiness` and `RoomRace` extend `RoomProperties`. `Timers`, `ConnTable` and `Accounts`
stand alone: they have other state, and meet the rooms only through what `GameServer` has
in short (a timer fires, a socket number comes back, a roleid is given).

**Atomicity.** A handler is one step: there is one worker thread. In `GameServer` a run of
`TimerFunc` is one step too, which the code does not guarantee: that module says what
happens when timer and worker do not overlap. Where threads meet, the steps are split:
`RoomRace` has the calls into the maps and what is held between them, `Timers` the two
halves of `m_iSendMsgCount++`, `ConnTable` each load and store, in both orders where the
compiler may choose. `Accounts` has the only handler with two writes to the database, as
two steps.

**Crashes.** Dereferencing NULL sets `fault` and stops everything. Writing through the
pointer to the deleted `CKeepAliveInfo` (KeepAlive.cpp:25) is undefined: the write goes
unnoticed or the process dies, both are steps. A room that another thread has deleted
shows what it held or kills the process, both are steps of `RoomRace`; the argument a
timer thread has deleted likewise in `Timers`. In `Accounts` the process may end at any
time: the tables survive, the entities do not.

**Abstraction.** Names, attributes, buffers, logging and the answers sent are left out; so
is `roomstate`, which the handlers copy and none decides by. A team and a position in
it are a pair `<<team, teamid>>`: a `Seat` if a room has it; a message may name others, of
which an instance has the set `Elsewhere`. The process's own ids are sets (`Socket`,
`UserID`, `RandomID`, `Ticket`); an id that `GenrateOnlyRoomID` draws while a room has it
gives 0, as in the code. A user of `Accounts` stands for its name, its id and the right
password.

**Clients** are not in the repository. The server checks the session and nothing else, so
a client may send any request at any time. What holds then is little and is checked and
proved for that case (`TypeOK`, `SeatsDistinct`). The other invariants of rooms hold for
the clients one expects; the constant `Hazards` of `GameServer` names what those do not
do, and a run may admit any of it. In between is `EntityHasEntry`, that a player who is in
a room by its entity is in that room's list: it withstands all of the hazards but shared
roles, and but `comeback` and `relogin` together.

| Hazard | admits | without it |
|---|---|---|
| `collision` | a drawn room id that is taken | draws are fresh |
| `joinInRoom` | joining while in a room | only from outside, or into the own room (the code treats it as a leave) |
| `sharedRole` | a role chosen on two sockets, or none | one connected socket per role |
| `comeback` | choosing the role of an evicted player that a room still lists | such a role is not chosen |
| `relogin` | another role on the same socket | one role per connection |
| `reuse` | socket numbers handed out again | each number once |
| `sync` | a PlayerInfo with any captain flag and any seat | the client sends back the flag and the seat it got; the switch may be anything |
| `elsewhere` | an accepted invitation to a seat that rooms do not have, which the server does not test (HallScene.cpp:231) | invitations name seats of the room |

`Readiness` is without all of these: clients have a role each, join rooms when they are in
none, and a PlayerInfo they send may turn their switch. `RoomRace` is, too, and leaves out
GameWaite and Rsync, which then touch nothing but the switch.
`Timers`, `ConnTable` and `Accounts` restrict clients in nothing.

**What may go wrong is named, not excluded.** The modules with threads go on through
their races, and properties say how far the damage reaches: `raced` in `RoomRace`,
`restarted` and `overtaken` in `Timers`, `upset` in `ConnTable`, `torn` and `repeated` in
`Accounts` are histories that no action's guard looks at (but for the bounds `Followed`
and `Contained`).

## 3. Runs

| Run | Instance | Shows |
|---|---|---|
| `lobby` | `Readiness`: 3 clients, 2 room ids, 2x2 seats | `FreeCount`, `RoleOnce`, `EntryHasEntity`, `EntityHasEntry`, `CaptainFirst` and the refinement `KeepsRegistry`, through all orders of the requests of lobby and game |
| `silent` | `GameServer`: 3 clients, 1 room, 3x1 seats, one client with a timer | the same of rooms when a client falls silent in the lobby or the game, is taken out, comes back in time or is evicted and leaves its entry behind |
| `any_client` | `GameServer`: 2 clients, 2x1 seats and one that the room does not have, five of the hazards | `SeatsDistinct` whatever is requested and whoever connects, and `EntityHasEntry` as long as roles are kept apart, in rooms with more players than places too |
| `race` | `RoomRace`: 2 players whose timers both fire, 2 room ids, 1x3 seats | `DamageContained`: rooms that were not worked on by several threads at once are coherent |
| `timers` | `Timers`: 2 entities, one whose number comes back, 2 threads each | `OneTimer`, `ArgumentLives`, `CountsSlowly`, and `AllSilentEvicted`: once all clients have fallen silent all timers end with an eviction |
| `connections` | `ConnTable`: 3 sockets, 3 slots | `TableExact`, `RecvReturns`, and for a watched socket `PendingReceived` and `ClosedRemoved` |
| `accounts` | `Accounts`: 2 sockets, users, tickets, role names and types | `OneRolePerType`, `OrphansOnlyAfterCrash`, `AnsweredIsLinked`, `PlayersHaveRoles`, `ChosenByLastLogin` through crashes at any point |

Disagreements between the code and its comments, each a run that ends in a counterexample:

| Run | Claim | What happens |
|---|---|---|
| `evicted_in_game` | the end of the game deletes the room (MainScene.cpp:159) | a player was evicted: NULL is dereferenced at 151 before |
| `comeback` | the last player's leaving deletes the room (HallScene.cpp:669) | a player listed twice leaves with both entries and gives back one place: the room stays, empty |
| `stale_ready` | the game starts when all are ready (HallScene.cpp:809) | the switch keeps its position from another room |
| `lost_connection` | the array holds all active sockets (Server.h:44) | an append overlaps a removal: an open connection is in no slot and never served |
| `lost_join` | a player who joins is recorded in the room (HallScene.cpp:606) | a timer replaces the room by the copy it made before |

One more is a matter of pace, and `CountsSlowly` of the run `timers` has the code's side of
it: a tick comes when `time(0)` exceeds `preTime + 1`, so every second change of `time(0)`
at the soonest. The comments say every second (KeepAlive.cpp:48) and, of the counts 3 and
10, 3 and 10 seconds (63, 79), which take about twice as long; and 3 minutes (127) of the
count 30, which the timer of a single client reaches in about one.

Known behaviours that no comment denies are in the models and are not claims: an accepted
invitation into a room that is gone dereferences NULL (HallScene.cpp:298), a colliding id
becomes 0 (51), `isBroken` is cleared from the 10th to the 29th missed heartbeat
(KeepAlive.cpp:125), GameStart does not find evicted players.

**Bounds.** The thresholds 3 < 10 < 30 are scaled to 1 < 2 < 3 in `GameServer`: each range
of the count keeps one value, which is all the branches tell apart. `Timers` looks at the
last limit only and has 2 for 30: a count that is written back, reset and written again
needs no more. Rooms are 2x2, 3x1 or 1x3 in place of 2x3: with three clients they can be
almost full and lose a player from the front, the middle and the end; with 3x1 they are
full. `Beating` are the clients that start a timer, `Silent` those whose timer takes them
out, `MaxTaken` says how often in `race`. `Overfull` bounds `freepersoncount` from below:
by so many players a room's count may exceed its places. At 0 it forbids nothing
while the count is right, since a full room has no seat to give. It is 1 in
`any_client`, where seats are given that rooms do not have, and where a player listed twice
leaves with two entries and gives one place back, again and again. (`MinFree` of `RoomRace`
is such a bound, too.) From above the count bounds itself. The rooms of `any_client` are
2x1, so that with one more they have three entries of two players. It leaves out
`collision`, whose rooms with the id 0 multiply the states, and for the sake of
`EntityHasEntry` it leaves out `sharedRole` and, as that may not go with `relogin`,
`comeback`, which the run of that name admits; the theorems cover all three. Three slots
for FD_SETSIZE let the set become full while a connection goes. `Followed` says through
which races an instance of `ConnTable` goes on: `connections` follows numbers that come
back and stops at the first overlap of append and removal, as its properties claim nothing
after it; `lost_connection` follows all. `race` stops when all room ids have been raced
(`Contained`): there is nothing left to be contained.

**Symmetry** over sockets (beating, silent or not), users, room ids and the rows of the
database is sound: they are compared for equality and nothing else. The runs with
liveness, `timers` and `connections`, use none.

**Deadlock** is checked in `lobby` and `accounts`. Elsewhere the system may really stop:
after a fault, when every number of `Socket` is used up, or behind one of the bounds above.

**Fairness.** In `ConnTable`, `AcceptThread` and `WorkerThread` are weakly fair: both are
loops of the process that end with it. (`Accept` is the client's doing and not fair.) In
`Timers` time passes (`Second`), and each timer thread is a loop that never sleeps, which
ends only where `Look` or the process does: weak fairness for each thread. Clients need
not do anything, and nothing is fair in the other modules, which state safety.
`AllSilentEvicted` speaks of the time after the last heartbeat of all clients: while one
client keeps sending, nothing forces the thread of a silent one to be the first to look
after the interval, and the other's tick sets the shared `preTime` again and again.

## 4. Proofs

All theorems hold for every value of the constants (any numbers of sockets, users, rooms,
teams, seats, slots and threads, any thresholds) that satisfies the named ASSUMEs of the
modules. For `GameServer` an assumption about `Hazards` may come on top; the table has it.

| Module | Theorems | Inductive invariant |
|---|---|---|
| `GameServerProofs` | `TypeCorrect`, `SeatsAreDistinct`, for all `Hazards` | `TypeOK`, `SeatsDistinct` |
| | `EntitiesMatchEntries`, for `RolesKeptApart`: no `sharedRole`, not both `comeback` and `relogin` | `Secured` = `RealRoles`, `RolesUnique`, `PlacesSuffice`, `EachHasOwn` |
| | `PlacesAreCounted`, `ListedOnce`, `EntriesMatchEntities`, `FirstIsCaptain`, `ServerKeepsRegistry`, for `Hazards = {}` | `IInv` = `TypeOK`, `SeatsDistinct`, `Coherent`, `GoneForGood` |
| `ReadinessProofs` | `ReadinessTypeCorrect`, `LobbyPlacesAreCounted`, `LobbyListedOnce`, `LobbyEntriesMatchEntities`, `LobbyEntitiesMatchEntries`, `LobbyFirstIsCaptain`, `LobbyKeepsRegistry` | `RInv`, which has `Coherent`, too |
| `RoomRaceProofs` | `RaceTypes`, `DamageIsContained` | `RaceInv` = types, `RolesDiffer`, `Clean` for each room outside `raced` |
| `AccountsProofs` | `AccountsTypeCorrect`, `RolesAreUnique`, `OrphansNeedACrash`, `RegistrationsLast`, `ChosenRolesExist`, `LastLoginChooses` | `IInv` = `TypeOK`, `Tables`, `Sessions` |
| `ConnTableProofs` | `ConnTypeCorrect`, `TableIsExact`, `NoRecvWaits` | `ConnInv` = `TypeInv`, `Exact`, `Readers` |
| `TimersProofs` | `TimersTypeCorrect`, `TimersAreSingle`, `ArgumentsLive`, `NeverTooFast` | `TimersInv` = `TypeInv`, `Single`, `Pace` |

`HandlerProofs` has the lemmas about lists of players and what each handler does to types
and seats, `CoherenceProofs` what each does to coherence; `GameServerProofs`,
`ReadinessProofs` and `RoomRaceProofs` use them for their own steps.

*Types and seats.* `TypeOK` holds for any player info and any seat name sent; it says that
every rebuild makes a list of players again, and that the count of heartbeats never passes
the last threshold. That every seat given is one the room has (`SeatsExist`) holds only if
invitations name such a seat: it is a part of `ReadinessTypeOK` and of `Coherent`. Joining
preserves `SeatsDistinct` because the new seat is compared with (JoinTeam) or chosen
outside (JoinRoom) the seats listed. Leaving rebuilds the list, and there the argument is
about `Keep`: `Nth(K, k)`, the k-th smallest index of a set, is defined by a count of
elements; with the theorems on finite sets, such an element exists for each k and
different k give different indices (`NthSound`, `NthInjective`), so a rebuilt list is a
sub-list (`KeepSound`) with distinct seats (`RebuiltSeats`).

*Coherence.* The five invariants of rooms do not hold one by one: a leave that counts
right needs the player to be listed once, a captain who leaves chooses a successor only if
its entity knows that it is captain, and so on. Their conjunction is not inductive either.
`Coherent` adds that the seats given exist, that no room has the id 0, that entries have
real roles, that no two connected entities share a role, and `RoleIsOwners`: an entry's
role is held by nobody but its own socket's entity, also when that is gone. `GoneForGood`
says that a socket number whose entity was evicted is not connected again, so its entry
cannot be taken for a newcomer's. With these a rebuild takes out exactly one entry
(`SkipSound`: the list without one index), which is what counts, captains and the registry
see.

*Own rooms.* `EntityHasEntry` is the one part of coherence that survives most hazards, and
its danger is `LeaveRoom`'s first test: a room is deleted when the places it counts say
that nobody would be left, whoever is still listed. An exact count is more than is needed.
`PlacesSuffice` only says that a room counts at least as many places taken as there are
claims to it (`Claims`): the roles it lists, if players come back to their old entries,
else the connected players who are in it or on its list. `EachHasOwn` says that each
connected player in a room has an entry there which no other connected player's role
matches, so that no one else's leaving takes it out. A room with another claim is then
never deleted (`NthCovers`: the copy that replaces it has the other entries). Neither
reading of the claims survives both `comeback` and `relogin`: a player who leaves with two
entries gives one place back, and one who changes role in a room takes a second entry
there. With both, TLC finds a room deleted under a player.

*Refinement.* `ServerKeepsRegistry`: initial states map to initial states, and each step
is a step of `RoomRegistry` or a stutter (`CoherentStep`). `Enter` requires a free place,
which the code never tests: it looks for a seat nobody has. `RoomForOneMore` shows that
a free seat implies fewer players than seats, since distinct seats that exist are an
injection of the list into the seats.

*Connections.* `Exact` says which slots are live in each of the half-done appends and
removals, in both orders of the stores, and that the live slots are a bijection with the
open sockets. It holds until `upset` contains more than `"reuse"`; that this condition
cannot be dropped is what `lost_connection` shows. `Readers` is about the sockets the
worker has yet to serve in this round.

*Timers.* `Single`: an entity that was not reconnected has one thread at most, is marked as
having it, and its argument is deleted only when that thread has been told to end. `Pace` relates
`quiet`, the count, the copy of the count in the thread and the shared `elapsed`; the
tick of another entity only sets `elapsed` back, which delays.

*Accounts.* `Tables` describes rows that a torn registration left with NULL, in which no
role can be found and for which roles are inserted under 0. `Sessions`: a session in the
table was given to the socket of the last login, and an entity with the same session is
that socket's unless the session was drawn twice.

*Races.* `DamageContained` speaks of rooms at rest, but timers pause within the rebuild of
a room, with the copy and the position in it in their hands. `Clean` says of a room that
no two threads worked on at once what each stage has left. One thread at most works on it.
While a timer only looks at the room, the room is whole: list, count, entities and captain
agree. From the copy on the new room is, but for the player it leaves out (`Progress`). A
join has chosen its seat, and the room will be whole with the entry it is about to add
(`Expecting`). Where nobody works, the room is whole, or the id has neither room nor
players (`Settled`, `Vacant`). For each action a lemma shows this for every id outside
`raced`, the one it works on and the others; an id where two threads meet is in `raced`
from then on.

Only model-checked: the liveness properties `PendingReceived`, `ClosedRemoved` and
`AllSilentEvicted`, which are out of the prover's reach; and, as induction over data is
too, that `Keep` is `SelectSeq` (`KeepCopiesInOrder`, an ASSUME that TLC evaluates for all
lists up to length five).

## 5. Not modelled

* The bytes of messages: the receive buffer, messages that arrive joined or split, the
  message of another client handled again after a failing `recv` (`Buffer[-1]` is written
  and the buffer keeps its content). A message of the models is received whole, once. The
  parsing that decides what a stale tail means is in the generated code.
* Outgoing messages; `send` failing (its result is not used).
* `g_bExit` and the destructors that run when the console window is closed, while the
  system ends the process; `JiraServer.cpp`, which starts the server.
* The inner steps of `std::map` when two threads change it at once, which has no defined
  outcome at all; each call into a map is one step. The copying loop of a rebuild is one
  step, too. A GameWaite or Rsync while a timer rebuilds the room: the copy is of entries,
  which they do not change.
* What the numbers of `GenrateRandomID` are, and so how often ids collide. The model has
  that they may.
* RequestTeam, OnlineFriend and GetRoomList, which only read; `DropTable`, `Delete` and
  `Select` of `CDBServer`, which have no callers; singletons and conversions of strings.
* Vendored and generated code: Protocol Buffers with the generated messages, SQLite, the
  JSON library. It is about 93,000 of the repository's 97,000 lines; the program's own
  code is about 3,900 lines, so that the share of all lines that the models cover is small
  whatever they cover of these. The client is not in the repository.

## 6. Plan

Weaker assumptions than `Hazards = {}` for the other theorems about coherence: `FreeCount`,
`RoleOnce` and the registry should hold with `sync`, which disturbs seats and flags of
the entities only, once `Coherent` is split into a part without these and the rest;
`EntryHasEntity` with `comeback`; all of it with `reuse` where no room lists the number.
Then the receive buffer, with one message per `recv` and a tail.

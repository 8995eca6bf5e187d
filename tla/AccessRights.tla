---------------------------- MODULE AccessRights ----------------------------
(***************************************************************************)
(* The cached rights of a channel (src/src/access_control.cpp).  A thread  *)
(* of the server runs ChannelState::initialize() for a new channel; the    *)
(* application's thread activates policies, refreshes host groups and      *)
(* recomputes the rights of channels.  The access library computes the     *)
(* access of every client under its lock and calls accessChanged() from    *)
(* there; asCheckGet() and asCheckPut() read without the lock.             *)
(*                                                                         *)
(* A policy gives each identity of a channel its rights; a channel has the *)
(* rights of any of its identities.  recompute() on the application's      *)
(* thread is one step: nothing else writes what it reads.                  *)
(***************************************************************************)
EXTENDS Naturals, FiniteSets

CONSTANTS
  Channels,
  Users,        \* the account and the roles of a channel
  Rights,       \* "read", "write" and "trap"
  Policies,     \* a policy is a function from Users to sets of rights
  Refreshes,    \* which changes happen: host group refreshes (TRUE) and reloads (FALSE)
  MaxChanges    \* bound: policies activated and host groups refreshed

ASSUME RightsAssumption == Policies \subseteq [Users -> SUBSET Rights] /\ Refreshes \subseteq BOOLEAN /\ MaxChanges \in Nat

VARIABLES
  policy, access,           \* the library: the policy, and access[c][u] as computed
  rights, rightsBeforeChange, dirty, initialized,   \* the fields of a ChannelState
  members,                  \* the channels in the AccessMembers' lists
  queue, recomputeNeeded,   \* Impl::dirty and its overflow flag
  step,                     \* initialize(): "new", "added", "reading", "stored", "cleared",
                            \* "initialized", "joined"; then "open" and "gone"
  read, found,              \* the identities recompute(false) has read, and its `next`
  closed,                   \* the channel has been closed
  main,                     \* the application: "idle", "compute", "clear", "note", "recompute"
  todo,                     \* the clients the library, or the channels recompute, has yet to visit
  client,                   \* the channel whose callback runs, and the rights it has taken
  refresh,                  \* the library is in asRefreshHag()
  changes,
  overtaken,                \* history: access changed while initialize() ran, and was not recomputed
  granted                   \* history: the rights the channel was opened with

chanVars == <<rights, rightsBeforeChange, dirty, initialized>>
initVars == <<step, read, found, members>>
mainVars == <<main, todo, client, refresh, changes>>
vars == <<policy, access, chanVars, queue, recomputeNeeded, initVars, closed, mainVars,
          overtaken, granted>>

Init ==
  /\ policy \in Policies /\ access = [c \in Channels |-> [u \in Users |-> {}]]
  /\ rights = [c \in Channels |-> {}] /\ rightsBeforeChange = [c \in Channels |-> {}]
  /\ dirty = [c \in Channels |-> FALSE] /\ initialized = [c \in Channels |-> FALSE]
  /\ members = {} /\ queue = {} /\ recomputeNeeded = FALSE
  /\ step = [c \in Channels |-> "new"]
  /\ read = [c \in Channels |-> {}] /\ found = [c \in Channels |-> {}]
  /\ closed = [c \in Channels |-> FALSE]
  /\ main = "idle" /\ todo = {} /\ client = <<>> /\ refresh = FALSE /\ changes = 0
  /\ overtaken = [c \in Channels |-> FALSE] /\ granted = [c \in Channels |-> {}]

\* What asCheckGet(), asCheckPut() and trapMask give over all clients of a channel.
Allowed(c) == UNION {access[c][u] : u \in Users}

-----------------------------------------------------------------------------
(* ChannelState::initialize(), on a thread of the server *)

libraryFree == main \notin {"compute", "clear", "note"}

\* asAddClient() and asRegisterClientCallback() for every identity.  The callback
\* of the registration finds no rights to take away.
AddClients(c) ==
  /\ step[c] = "new" /\ libraryFree
  /\ access' = [access EXCEPT ![c] = policy]
  /\ step' = [step EXCEPT ![c] = "added"]
  /\ UNCHANGED <<policy, chanVars, queue, recomputeNeeded, read, found, members, closed, mainVars,
                 overtaken, granted>>

\* recompute(false) reads one client, ...
ReadClient(c, u) ==
  /\ step[c] = "added" /\ u \notin read[c]
  /\ read' = [read EXCEPT ![c] = @ \cup {u}]
  /\ found' = [found EXCEPT ![c] = @ \cup access[c][u]]
  /\ UNCHANGED <<policy, access, chanVars, queue, recomputeNeeded, step, members, closed, mainVars,
                 overtaken, granted>>

\* ... stores the rights, ...
StoreRights(c) ==
  /\ step[c] = "added" /\ read[c] = Users
  /\ rights' = [rights EXCEPT ![c] = found[c]]
  /\ granted' = [granted EXCEPT ![c] = found[c]]
  /\ step' = [step EXCEPT ![c] = "stored"]
  /\ UNCHANGED <<policy, access, rightsBeforeChange, dirty, initialized, queue, recomputeNeeded,
                 read, found, members, closed, mainVars, overtaken>>

\* ... and clears what a callback has left.
ClearChange(c) ==
  /\ step[c] = "stored"
  /\ dirty' = [dirty EXCEPT ![c] = FALSE]
  /\ rightsBeforeChange' = [rightsBeforeChange EXCEPT ![c] = {}]
  /\ step' = [step EXCEPT ![c] = "cleared"]
  /\ UNCHANGED <<policy, access, rights, initialized, queue, recomputeNeeded, read, found, members,
                 closed, mainVars, overtaken, granted>>

SetInitialized(c) ==
  /\ step[c] = "cleared"
  /\ initialized' = [initialized EXCEPT ![c] = TRUE]
  /\ step' = [step EXCEPT ![c] = "initialized"]
  /\ UNCHANGED <<policy, access, rights, rightsBeforeChange, dirty, queue, recomputeNeeded, read,
                 found, members, closed, mainVars, overtaken, granted>>

\* AccessMember::addClient()
addClient(c) ==
  /\ step[c] = "initialized"
  /\ members' = members \cup {c}
  /\ step' = [step EXCEPT ![c] = "joined"]
  /\ UNCHANGED <<policy, access, chanVars, queue, recomputeNeeded, read, found, closed, mainVars,
                 overtaken, granted>>

\* AuthorizedChannelControl(): from now on the channel can be closed, and is used.
Open(c) ==
  /\ step[c] = "joined"
  /\ step' = [step EXCEPT ![c] = "open"]
  /\ UNCHANGED <<policy, access, chanVars, queue, recomputeNeeded, read, found, members, closed,
                 mainVars, overtaken, granted>>

\* The client goes away or its channel was closed; asRemoveClient() takes the lock.
Disconnect(c) ==
  /\ step[c] = "open" /\ libraryFree
  /\ step' = [step EXCEPT ![c] = "gone"] /\ members' = members \ {c}
  /\ UNCHANGED <<policy, access, chanVars, queue, recomputeNeeded, read, found, closed, mainVars,
                 overtaken, granted>>

-----------------------------------------------------------------------------
(* The access library, on the application's thread *)

Clients == {<<c, u>> : c \in {d \in Channels : step[d] \notin {"new", "gone"}}, u \in Users}

\* asInitMem() or asRefreshHag() takes the lock and computes the access of every
\* client anew; for the library a host group that resolves to other addresses is
\* another policy.
Change(p, hag) ==
  /\ main = "idle" /\ changes < MaxChanges
  /\ policy' = p /\ refresh' = hag
  /\ changes' = changes + 1
  /\ main' = "compute" /\ todo' = Clients
  /\ UNCHANGED <<access, chanVars, queue, recomputeNeeded, initVars, closed, client, overtaken, granted>>

\* Access of this client stays the same: no callback.
Same(c, u) ==
  /\ main = "compute" /\ <<c, u>> \in todo /\ access[c][u] = policy[u]
  /\ todo' = todo \ {<<c, u>>}
  /\ UNCHANGED <<policy, access, chanVars, queue, recomputeNeeded, initVars, closed, main, client,
                 refresh, changes, overtaken, granted>>

Differs(c, u) ==
  /\ main = "compute" /\ <<c, u>> \in todo /\ access[c][u] # policy[u]
  /\ access' = [access EXCEPT ![c][u] = policy[u]]
  /\ todo' = todo \ {<<c, u>>}
  /\ main' = "clear" /\ client' = <<c>>
  /\ overtaken' = [overtaken EXCEPT ![c] = @ \/ step[c] \notin {"joined", "open"}]
  /\ UNCHANGED <<policy, chanVars, queue, recomputeNeeded, initVars, closed, refresh, changes, granted>>

\* Mutant of Taken: the cached rights stay until they are recomputed.
TakenLater(c) == rights[c]

\* rights.exchange(0)
Taken(c) == {}

\* accessChanged(): the rights are taken away, ...
TakeRights ==
  /\ main = "clear"
  /\ LET c == client[1]
     IN /\ rights' = [rights EXCEPT ![c] = Taken(c)]
        /\ client' = <<c, rights[c]>>
  /\ main' = "note"
  /\ UNCHANGED <<policy, access, rightsBeforeChange, dirty, initialized, queue, recomputeNeeded,
                 initVars, closed, todo, refresh, changes, overtaken, granted>>

\* ... remembered, and the channel is queued for recomputation unless it is queued or is being
\* initialised.  markDirty() may fail.
NoteChange ==
  /\ main = "note"
  /\ LET c == client[1]
     IN /\ rightsBeforeChange' = [rightsBeforeChange EXCEPT ![c] = @ \cup client[2]]
        /\ IF initialized[c] /\ ~dirty[c]
           THEN /\ dirty' = [dirty EXCEPT ![c] = TRUE]
                /\ \/ queue' = queue \cup {c} /\ UNCHANGED recomputeNeeded
                   \/ recomputeNeeded' = TRUE /\ UNCHANGED queue
           ELSE UNCHANGED <<dirty, queue, recomputeNeeded>>
  /\ main' = "compute" /\ client' = <<>>
  /\ UNCHANGED <<policy, access, rights, initialized, initVars, closed, todo, refresh, changes,
                 overtaken, granted>>

\* The library is done.
\* recomputeAllClients() drops the queue and visits every channel of a member.
Computed ==
  /\ main = "compute" /\ todo = {}
  /\ main' = "recompute" /\ todo' = Channels /\ queue' = {}
  /\ UNCHANGED <<policy, access, chanVars, recomputeNeeded, initVars, closed, client, refresh,
                 changes, overtaken, granted>>

\* asRefreshHag() reports an error: the channels it called back stay queued.
RefreshFails ==
  /\ main = "compute" /\ todo = {} /\ refresh
  /\ main' = "idle"
  /\ UNCHANGED <<policy, access, chanVars, queue, recomputeNeeded, initVars, closed, todo, client,
                 refresh, changes, overtaken, granted>>

-----------------------------------------------------------------------------
(* Recomputation, on the application's thread *)

\* Mutant of Prior: what the callbacks took away is not considered.
PriorOfCache(c) == rights[c]

\* The rights the channel had before the callbacks.
Prior(c) == IF rightsBeforeChange[c] # {} THEN rightsBeforeChange[c] ELSE rights[c]

\* Mutant of StillDirty: recompute() leaves the flag set.
StillDirtyAfter(c) == dirty[c]

\* dirty.store(false)
StillDirty(c) == FALSE

\* recompute(true).  A channel whose control does not exist yet is not closed.
recompute(c) ==
  /\ rights' = [rights EXCEPT ![c] = Allowed(c)]
  /\ dirty' = [dirty EXCEPT ![c] = StillDirty(c)]
  /\ rightsBeforeChange' = [rightsBeforeChange EXCEPT ![c] = {}]
  /\ closed' = [closed EXCEPT ![c] = @ \/ (Prior(c) # Allowed(c) /\ step[c] = "open")]
  /\ overtaken' = [overtaken EXCEPT ![c] = FALSE]
  /\ granted' = [granted EXCEPT ![c] = IF overtaken[c] \/ step[c] # "open" THEN Allowed(c) ELSE @]

Recompute(c) ==
  /\ main = "recompute" /\ c \in todo
  /\ todo' = todo \ {c}
  /\ IF c \in members THEN recompute(c)
     ELSE UNCHANGED <<rights, dirty, rightsBeforeChange, closed, overtaken, granted>>
  /\ UNCHANGED <<policy, access, initialized, queue, recomputeNeeded, initVars, main, client, refresh,
                 changes>>

Recomputed ==
  /\ main = "recompute" /\ todo = {}
  /\ main' = "idle"
  /\ UNCHANGED <<policy, access, chanVars, queue, recomputeNeeded, initVars, closed, todo, client,
                 refresh, changes, overtaken, granted>>

\* drainDirty(), once per second when no host group has changed: after a failure
\* of markDirty() every channel is recomputed, ...
DrainAll ==
  /\ main = "idle" /\ recomputeNeeded
  /\ recomputeNeeded' = FALSE /\ queue' = {}
  /\ main' = "recompute" /\ todo' = Channels
  /\ UNCHANGED <<policy, access, chanVars, initVars, closed, client, refresh, changes, overtaken,
                 granted>>

\* ... and otherwise the queued ones that still exist.
drainDirty(c) ==
  /\ main = "idle" /\ ~recomputeNeeded /\ c \in queue
  /\ queue' = queue \ {c}
  /\ IF step[c] # "gone" THEN recompute(c)
     ELSE UNCHANGED <<rights, dirty, rightsBeforeChange, closed, overtaken, granted>>
  /\ UNCHANGED <<policy, access, initialized, recomputeNeeded, initVars, mainVars>>

-----------------------------------------------------------------------------
ServerStep(c) ==
  \/ AddClients(c) \/ (\E u \in Users : ReadClient(c, u)) \/ StoreRights(c) \/ ClearChange(c)
  \/ SetInitialized(c) \/ addClient(c) \/ Open(c) \/ Disconnect(c)

LibraryStep ==
  \/ \E c \in Channels, u \in Users : Same(c, u) \/ Differs(c, u)
  \/ TakeRights \/ NoteChange \/ Computed \/ RefreshFails

RecomputeStep == (\E c \in Channels : Recompute(c) \/ drainDirty(c)) \/ Recomputed \/ DrainAll

Next ==
  \/ \E c \in Channels : ServerStep(c)
  \/ \E p \in Policies, hag \in Refreshes : Change(p, hag)
  \/ LibraryStep \/ RecomputeStep

\* pump() runs as long as the application does.
Spec == Init /\ [][Next]_vars /\ WF_vars(LibraryStep) /\ WF_vars(RecomputeStep)

-----------------------------------------------------------------------------
(* Properties *)

InUse(c) == step[c] = "open" /\ ~closed[c]

\* A channel that was not being initialised during the change has no right that
\* the policy in force denies, except while accessChanged() is on its way to it.
RevokedAtOnce ==
  \A c \in Channels :
    InUse(c) /\ ~overtaken[c] /\ ~(main = "clear" /\ client = <<c>>) => rights[c] \subseteq Allowed(c)

Settled == main = "idle" /\ queue = {} /\ ~recomputeNeeded

\* When nothing is left to recompute, a channel in use has the rights it was opened
\* with: one whose rights have changed was closed, for its monitors to end.
ClosedOnChange ==
  Settled => \A c \in Channels : InUse(c) /\ ~overtaken[c] =>
    rights[c] = granted[c] /\ rights[c] = Allowed(c)

\* Rights that a callback has taken from a channel are recomputed: no change is
\* forgotten, whatever fails in between.
RecomputedAtLast ==
  \A c \in Channels : [](InUse(c) /\ rights[c] # Allowed(c) /\ ~overtaken[c]
                         => <>(~InUse(c) \/ rights[c] = Allowed(c)))

\* Every change of access reaches every channel in use: its rights are those of the
\* policy in force.
PolicyReachesChannels == Settled => \A c \in Channels : InUse(c) => rights[c] = Allowed(c)
=============================================================================

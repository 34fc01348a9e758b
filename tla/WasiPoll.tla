------------------------------ MODULE WasiPoll ------------------------------
(***************************************************************************)
(* poll_oneoff and the pool of pollers on Linux (lib/host/wasi/            *)
(* inode-linux.cpp, include/host/wasi/environ.h).  A poller is an epoll    *)
(* descriptor that outlives the call: it goes back to the pool and is used *)
(* by a later call of any thread.  FdDatas has what the current call asked *)
(* for, OldFdDatas what the call before it did; from the two, read and     *)
(* write decide between EPOLL_CTL_ADD and EPOLL_CTL_MOD, and wait removes  *)
(* what is no longer asked for.  The kernel has its own record, which it   *)
(* changes by itself when a file is closed.                                *)
(*                                                                         *)
(* No descriptor is duplicated, so the file behind a descriptor is its     *)
(* native number; a node stays while FdMap or a call of a thread holds it. *)
(* Clocks are left out: the registrations below are those of the guest's   *)
(* files, not of the timers of a call.                                     *)
(***************************************************************************)
EXTENDS Integers, Sequences, Functions

CONSTANTS
    Callers,        \* threads of the guest
    Pollsters,      \* bound: the ones of them that poll
    Numbers,        \* numbers of the guest
    Natives,        \* numbers of the system
    Special,        \* the ones of them never closed: 0, 1 and 2
    MaxPolls,       \* bound on the calls of poll_oneoff
    NoFd

ASSUME PollAssumption ==
    /\ MaxPolls \in Nat /\ Pollsters \subseteq Callers
    /\ Special \subseteq Natives \cap Numbers /\ NoFd \notin Natives

VARIABLES
    FdMap,          \* guest number |-> native number or NoFd
    regular,        \* native numbers of regular files, which epoll refuses
    held,           \* thread |-> the node a call of it is using, or NoFd
    PollerPool,
    poll,           \* thread |-> the poll_oneoff it is in
    polls           \* calls of poll_oneoff so far

pollVars == <<FdMap, regular, held, PollerPool, poll, polls>>

Kinds == {"read", "write"}
Empty == [n \in {} |-> {}]
With(f, n, ks) == [m \in DOMAIN f \cup {n} |-> IF m = n THEN ks ELSE f[m]]
Without(f, ns) == Restrict(f, DOMAIN f \ ns)

(* interest is the kernel's record.  stale and left are history: the        *)
(* numbers the kernel dropped and this poller was not told of, and those    *)
(* that a call whose epoll_wait failed left behind in FdDatas.              *)
NewPoller == [FdDatas |-> Empty, OldFdDatas |-> {}, interest |-> Empty,
              stale |-> {}, left |-> {}]
NoPoll == [at |-> "none", poller |-> NewPoller, asked |-> Empty]

Believed(p) == DOMAIN p.FdDatas \cup p.OldFdDatas
Open(map, hold) == Special \cup ((Range(map) \cup Range(hold)) \ {NoFd})

PollInit ==
    /\ FdMap = [a \in Numbers |-> IF a \in Special THEN a ELSE NoFd]
    /\ regular = {}
    /\ held = [t \in Callers |-> NoFd]
    /\ PollerPool = <<>>
    /\ poll = [t \in Callers |-> NoPoll]
    /\ polls = 0

(* The kernel drops a file when the last reference to it goes. *)
Drop(p, gone) == [p EXCEPT !.interest = Without(@, gone)]

(* History: a poller that is not told that n is closed. *)
Miss(p, n) == [p EXCEPT !.stale = @ \cup ({n} \cap Believed(p))]

References(map, hold, pool, missed) ==
    LET gone == Open(FdMap, held) \ Open(map, hold) IN
      /\ FdMap' = map /\ held' = hold
      /\ PollerPool' = [i \in DOMAIN pool |-> Drop(pool[i], gone)]
      /\ poll' = [t \in Callers |-> [poll[t] EXCEPT !.poller = Drop(Miss(@, missed), gone),
                                                    !.asked = Without(@, {missed})]]

OutsideCalls(t) == held[t] = NoFd /\ poll[t].at = "none"

(* path_open, sock_open and sock_accept: the system picks the number. *)
pathOpen(t, a, n) ==
    /\ OutsideCalls(t) /\ FdMap[a] = NoFd /\ n \notin Open(FdMap, held)
    /\ FdMap' = [FdMap EXCEPT ![a] = n]
    /\ regular' \in {regular \ {n}, regular \cup {n}}
    /\ UNCHANGED <<held, PollerPool, poll, polls>>

(* Any call that works on a descriptor holds its node meanwhile. *)
getNodeOrNull(t, a) ==
    /\ OutsideCalls(t) /\ FdMap[a] # NoFd
    /\ held' = [held EXCEPT ![t] = FdMap[a]]
    /\ UNCHANGED <<FdMap, regular, PollerPool, poll, polls>>

CallReturns(t) ==
    /\ held[t] # NoFd
    /\ References(FdMap, [held EXCEPT ![t] = NoFd], PollerPool, NoFd)
    /\ UNCHANGED <<regular, polls>>

(* Poller::close. *)
Close(p, n) ==
    [p EXCEPT !.FdDatas = Without(@, {n}), !.OldFdDatas = @ \ {n}, !.stale = @ \ {n},
              !.left = @ \ {n}]

(* Mutant: the pollers of the pool are not told. *)
fdCloseQuietly(t, a) ==
    /\ OutsideCalls(t) /\ FdMap[a] # NoFd
    /\ References([FdMap EXCEPT ![a] = NoFd], held, PollerPool, FdMap[a])
    /\ UNCHANGED <<regular, polls>>

fdClose(t, a) ==
    /\ OutsideCalls(t) /\ FdMap[a] # NoFd
    /\ References([FdMap EXCEPT ![a] = NoFd], held,
                  [i \in DOMAIN PollerPool |-> Close(PollerPool[i], FdMap[a])], FdMap[a])
    /\ UNCHANGED <<regular, polls>>

fdRenumber(t, a, b) ==
    /\ OutsideCalls(t) /\ a # b /\ FdMap[a] # NoFd /\ FdMap[b] # NoFd
    /\ References([FdMap EXCEPT ![b] = FdMap[a], ![a] = NoFd], held,
                  [i \in DOMAIN PollerPool |-> Miss(PollerPool[i], FdMap[b])], FdMap[b])
    /\ UNCHANGED <<regular, polls>>

-----------------------------------------------------------------------------
acquirePoller(t) ==
    /\ t \in Pollsters /\ OutsideCalls(t) /\ polls < MaxPolls
    /\ LET p == IF PollerPool = <<>> THEN NewPoller ELSE PollerPool[Len(PollerPool)] IN
         poll' = [poll EXCEPT ![t] = [at |-> "ask", poller |-> p, asked |-> Empty]]
    /\ PollerPool' = IF PollerPool = <<>> THEN <<>> ELSE SubSeq(PollerPool, 1, Len(PollerPool) - 1)
    /\ polls' = polls + 1
    /\ UNCHANGED <<FdMap, regular, held>>

Had(f, n) == IF n \in DOMAIN f THEN f[n] ELSE {}

(* Poller::read and Poller::write, for a node of the guest. *)
Subscribed(p, n, k) ==
    LET added == n \notin DOMAIN p.FdDatas
        mask == Had(p.FdDatas, n) \cup {k}
        data == With(p.FdDatas, n, mask) IN
    IF k \in Had(p.FdDatas, n) THEN p                        \* EXIST
    ELSE IF added /\ n \notin p.OldFdDatas                   \* EPOLL_CTL_ADD
      THEN IF n \in regular \/ n \in DOMAIN p.interest THEN p
           ELSE [p EXCEPT !.FdDatas = data, !.interest = With(@, n, mask)]
    ELSE IF n \in DOMAIN p.interest                          \* EPOLL_CTL_MOD
      THEN [p EXCEPT !.FdDatas = data, !.interest = With(@, n, mask)]
    ELSE [p EXCEPT !.FdDatas = data]

(* History: what the call asked for of files that are open and that epoll   *)
(* takes; a regular file is answered at once.                               *)
Asked(f, n, k) == IF n \in regular THEN f ELSE With(f, n, Had(f, n) \cup {k})

(* A descriptor that is not there is answered BADF, and nothing changes.   *)
Subscribe(t, a, k) ==
    /\ poll[t].at = "ask" /\ FdMap[a] # NoFd
    /\ LET n == FdMap[a] IN
         poll' = [poll EXCEPT ![t].poller = Subscribed(@, n, k),
                              ![t].asked = Asked(@, n, k)]
    /\ UNCHANGED <<FdMap, regular, held, PollerPool, polls>>

(* Mutant: what the call before asked for is not removed. *)
waitKeeps(t) ==
    /\ poll[t].at = "ask"
    /\ poll' = [poll EXCEPT ![t].at = "wait"]
    /\ UNCHANGED <<FdMap, regular, held, PollerPool, polls>>

(* wait up to epoll_wait. *)
wait(t) ==
    /\ poll[t].at = "ask"
    /\ poll' = [poll EXCEPT ![t].at = "wait",
                  ![t].poller.interest =
                     Without(@, poll[t].poller.OldFdDatas \ DOMAIN poll[t].poller.FdDatas)]
    /\ UNCHANGED <<FdMap, regular, held, PollerPool, polls>>

Release(t, p) ==
    /\ PollerPool' = Append(PollerPool, p)
    /\ poll' = [poll EXCEPT ![t] = NoPoll]
    /\ UNCHANGED <<FdMap, regular, held, polls>>

(* epoll_wait has events; the answers are given, reset and releasePoller.  *)
waitReturns(t) ==
    /\ poll[t].at = "wait"
    /\ LET p == poll[t].poller
           old == DOMAIN p.FdDatas IN
         /\ DOMAIN p.interest # {}
         /\ Release(t, [p EXCEPT !.FdDatas = Empty, !.OldFdDatas = old,
                                 !.stale = @ \cap old, !.left = {}])

(* epoll_wait fails: every event has the error and wait returns at once.   *)
waitFails(t) ==
    /\ poll[t].at = "wait"
    /\ LET p == poll[t].poller IN
         Release(t, [p EXCEPT !.left = DOMAIN p.FdDatas,
                              !.stale = @ \cup (p.OldFdDatas \ DOMAIN p.FdDatas)])

PollNext ==
    \E t \in Callers :
      \/ \E a \in Numbers, n \in Natives : pathOpen(t, a, n)
      \/ \E a \in Numbers : getNodeOrNull(t, a)
      \/ CallReturns(t)
      \/ \E a \in Numbers : fdClose(t, a)
      \/ \E a, b \in Numbers : fdRenumber(t, a, b)
      \/ acquirePoller(t)
      \/ \E a \in Numbers, k \in Kinds : Subscribe(t, a, k)
      \/ wait(t)
      \/ waitReturns(t)
      \/ waitFails(t)

PollSpec == PollInit /\ [][PollNext]_pollVars

-----------------------------------------------------------------------------
Polls == {poll[t] : t \in {u \in Callers : poll[u].at # "none"}}

(* The pollers that are not in epoll_wait. *)
Pollers == Range(PollerPool) \cup {q.poller : q \in {r \in Polls : r.at = "ask"}}

(* Files the guest has closed that are open still: a standard stream, or one *)
(* a call of another thread is using.                                       *)
Orphans == Open(FdMap, held) \ Range(FdMap)

(* The type invariant. *)
PollTypeOK ==
    /\ FdMap \in [Numbers -> Natives \cup {NoFd}]
    /\ held \in [Callers -> Natives \cup {NoFd}]
    /\ \A p \in Pollers : Believed(p) \subseteq Natives /\ p.stale \subseteq Believed(p)

(* read and write choose EPOLL_CTL_MOD from FdDatas and OldFdDatas, and wait *)
(* what to remove: of the guest's files both have what the kernel has (the   *)
(* timers of a call, which are not modelled, stay in OldFdDatas after their  *)
(* removal).  They miss a file only if the guest closed it and it is open    *)
(* still, and have one too many only if it was closed by fd_renumber or      *)
(* while the poller was in use, or if an epoll_wait failed after the removal. *)
BookMatchesKernel ==
    \A p \in Pollers :
      /\ DOMAIN p.interest \subseteq Believed(p) \cup Orphans
      /\ Believed(p) \subseteq DOMAIN p.interest \cup p.stale

(* epoll_wait waits for what the call asked for.  It waits for nothing else, *)
(* so that the event found in FdDatas (the assuming of wait) is one of this  *)
(* call, but for files that the guest has closed and that are open still,    *)
(* and for what a call whose epoll_wait failed left in FdDatas.  And it      *)
(* waits for all of it, in the way it was asked, but for numbers the kernel  *)
(* dropped unknown to the poller, and for those left behind.  The first      *)
(* exception is the one in which the assuming fails: after a poll of         *)
(* standard input and fd_close of it, the next call that gets the poller is  *)
(* handed an event that FdDatas does not have.                               *)
WaitsForWhatWasAsked ==
    \A q \in Polls :
      q.at = "wait" =>
        /\ DOMAIN q.poller.interest \subseteq DOMAIN q.asked \cup Orphans \cup q.poller.left
        /\ \A n \in DOMAIN q.asked \ (q.poller.stale \cup q.poller.left) :
             n \in DOMAIN q.poller.interest /\ q.poller.interest[n] = q.asked[n]

-----------------------------------------------------------------------------
(* The inductive invariant.  opened, mapped and reg are the files that are  *)
(* open, the ones the guest has a descriptor of, and the regular ones.      *)
Registers == UNION {[D -> SUBSET Kinds] : D \in SUBSET Natives}
PollerSet == [FdDatas : Registers, OldFdDatas : SUBSET Natives, interest : Registers,
              stale : SUBSET Natives, left : SUBSET Natives]
PollSet == [at : {"none", "ask", "wait"}, poller : PollerSet, asked : Registers]

(* What is true of a poller wherever it is: a file the guest has closed is  *)
(* stale for it as soon as it is believed in, and stale ones that are still *)
(* registered are orphans.                                                  *)
Sound(p, opened, mapped, reg) ==
    /\ DOMAIN p.interest \subseteq opened \ reg
    /\ p.stale \subseteq Believed(p)
    /\ Believed(p) \cap (opened \ mapped) \subseteq p.stale
    /\ p.stale \cap DOMAIN p.interest \subseteq opened \ mapped

Rests(p, opened, mapped, reg) ==
    /\ Sound(p, opened, mapped, reg)
    /\ DOMAIN p.interest \subseteq Believed(p) \cup (opened \ mapped)
    /\ Believed(p) \subseteq DOMAIN p.interest \cup p.stale

Waiting(p, opened, mapped, reg) ==
    /\ Sound(p, opened, mapped, reg)
    /\ DOMAIN p.interest \subseteq DOMAIN p.FdDatas \cup (opened \ mapped)
    /\ DOMAIN p.FdDatas \subseteq DOMAIN p.interest \cup p.stale

(* The poller has what the call asked for. *)
Serves(p, wanted, mapped) ==
    /\ DOMAIN wanted \subseteq mapped
    /\ \A n \in DOMAIN p.FdDatas \ (p.stale \cup p.left) :
         /\ n \in DOMAIN wanted
         /\ wanted[n] = p.FdDatas[n]
         /\ p.interest[n] = p.FdDatas[n]
    /\ DOMAIN wanted \ (p.stale \cup p.left) \subseteq DOMAIN p.FdDatas

(* A poller of the pool, and a poll_oneoff of a thread. *)
Pooled(p, opened, mapped, reg) ==
    /\ p \in PollerSet
    /\ Rests(p, opened, mapped, reg)
    /\ DOMAIN p.FdDatas \subseteq p.left

Polled(q, opened, mapped, reg) ==
    /\ q \in PollSet
    /\ q.at = "ask" => Rests(q.poller, opened, mapped, reg)
    /\ q.at = "wait" => Waiting(q.poller, opened, mapped, reg)
    /\ q.at # "none" => Serves(q.poller, q.asked, mapped)

Descriptors(map, hold) ==
    /\ map \in [Numbers -> Natives \cup {NoFd}]
    /\ hold \in [Callers -> Natives \cup {NoFd}]
    /\ \A a, b \in Numbers : map[a] = map[b] => a = b \/ map[a] = NoFd

OpenNow == Open(FdMap, held)
MappedBy(map) == Range(map) \ {NoFd}
Mapped == MappedBy(FdMap)

PollInv ==
    /\ Descriptors(FdMap, held)
    /\ PollerPool \in Seq(PollerSet)
    /\ \A i \in 1 .. Len(PollerPool) : Pooled(PollerPool[i], OpenNow, Mapped, regular)
    /\ poll \in [Callers -> PollSet]
    /\ \A t \in Callers : Polled(poll[t], OpenNow, Mapped, regular)
=============================================================================

---------------------------- MODULE ServiceProofs ----------------------------
(***************************************************************************)
(* Theorems about the process: what its watchdog, its exit and its alerts  *)
(* promise, for any number of requests, of overlapping ticks, of restarts  *)
(* and of clients, and any lengths of the timers.                          *)
(*                                                                         *)
(* That an exit keeps the rows is a matter of time.  The drain aborts what *)
(* is live when its timer fires (Drained); what was aborted answers within *)
(* ReactsIn (Reacting); and the exit waits longer than that after the      *)
(* drain, but only if app.close() was given up (Settling): if it resolved, *)
(* nothing was live at all.                                                *)
(*                                                                         *)
(* The alert engine is proved turn by turn: whatever a turn of onEvent     *)
(* does, every message left its mark (GoodMarks), the counts of one client *)
(* alone moved (CountsMove), and a recovery that is being told explains a  *)
(* count that is still too high (CountOf).                                 *)
(***************************************************************************)
EXTENDS Service, Alerts, FiniteSetTheorems, SequenceTheorems, TLAPS

Process ==
    [phase: {"up", "closing", "settling", "down"}, startedAt: Nat, uptime: Nat \cup {Never},
     drained: BOOLEAN, drainAt: Nat \cup {Never}, giveUpAt: Nat \cup {Never},
     ended: [at: Nat \cup {Never}, gracefully: BOOLEAN]]

Uploading == [at: {"uploading"}, since: Nat]
LiveRequest == [at: {"live"}, since: Nat, aborted: Nat \cup {Never}, late: BOOLEAN]
AnyRequest == {Idle, Away} \cup Uploading \cup LiveRequest

Shapes ==
    /\ now \in Nat /\ starts \in 0..MaxStarts
    /\ process \in Process
    /\ requests \in [Requests -> AnyRequest]
    /\ journal \subseteq Requests
    /\ file \in [startedAt: Nat, stoppedAt: Nat \cup {Never}]

(* The watchdog: a request told once is remembered.                        *)
Watching ==
    /\ stuck \in SUBSET Requests
    /\ watch \in [Ticks -> {Asleep} \cup [at: {"looking", "telling"}, left: SUBSET Requests]]
    /\ told \in [Requests -> Nat]
    /\ \A r \in Requests : told[r] <= 1 /\ (r \notin stuck => told[r] = 0)

(* What the process remembers is what its file says.                       *)
FileIsTrue ==
    /\ file.startedAt = process.startedAt
    /\ Running => file.stoppedAt = Never /\ process.startedAt <= now
    /\ process.phase = "down" =>
          /\ process.ended.at \in Nat /\ process.startedAt <= process.ended.at
          /\ process.ended.at <= now
          /\ file.stoppedAt = IF process.ended.gracefully THEN process.ended.at ELSE Never

(* What is aborted has not had time to answer.                             *)
Reacting ==
    /\ \A r \in Live : requests[r].aborted <= now
    /\ Running => \A r \in Live \ Hanging :
          requests[r].aborted # Never => now <= requests[r].aborted + ReactsIn

(* The timer of the drain fires in time, and leaves nothing unaborted.     *)
Drained ==
    /\ Up => ~process.drained
    /\ process.phase \in {"closing", "settling"} =>
          /\ process.drainAt \in Nat /\ process.giveUpAt \in Nat
          /\ process.drained => process.drainAt <= now
          /\ process.drained => \A r \in Live :
                requests[r].late \/ (requests[r].aborted # Never /\ requests[r].aborted <= process.drainAt)
    /\ process.phase = "closing" =>
          /\ process.giveUpAt = process.drainAt + CloseGraceMs
          /\ ~process.drained => now <= process.drainAt

(* Either nobody is connected any more, or there was time to answer.       *)
Settling ==
    /\ process.phase = "settling" =>
          \/ Connected = {}
          \/ /\ process.drained
             /\ process.giveUpAt >= process.drainAt + CloseGraceMs + SettleMs
    /\ process.phase = "down" => Connected = {}

Timely == Reacting /\ Drained /\ Settling

ServiceInv == Shapes /\ Watching /\ FileIsTrue /\ Timely

----------------------------------------------------------------------------
LEMMA LiveShape ==
  ASSUME Shapes, NEW r \in Requests
  PROVE  /\ requests[r].at \in {"idle", "away", "uploading", "live"}
         /\ requests[r].at = "live" => requests[r] \in LiveRequest
         /\ requests[r].at = "uploading" => requests[r] \in Uploading
         /\ requests[r].at = "idle" => requests[r] = Idle
         /\ requests[r].at = "away" => requests[r] = Away
  <1>1. requests[r] \in AnyRequest
    BY DEF Shapes
  <1> QED BY <1>1 DEF AnyRequest, Uploading, LiveRequest, Idle, Away

LEMMA AbortOne ==
  ASSUME NEW q \in LiveRequest, NEW t \in Nat
  PROVE  /\ [q EXCEPT !.aborted = t] \in LiveRequest
         /\ [q EXCEPT !.aborted = t].aborted = t
         /\ [q EXCEPT !.aborted = t].late = q.late
         /\ [q EXCEPT !.aborted = t].since = q.since
  BY DEF LiveRequest

(* abortAll touches only the requests it is given, once.                   *)
LEMMA AbortAllDoes ==
  ASSUME Shapes, NEW rs
  PROVE  /\ AbortAll(rs) \in [Requests -> AnyRequest]
         /\ \A r \in Requests :
              /\ AbortAll(rs)[r].at = requests[r].at
              /\ requests[r].at = "live" =>
                    /\ AbortAll(rs)[r] \in LiveRequest
                    /\ AbortAll(rs)[r].late = requests[r].late
                    /\ AbortAll(rs)[r].aborted = IF r \in rs /\ requests[r].aborted = Never
                                                 THEN now ELSE requests[r].aborted
  <1> DEFINE after(r) == IF r \in rs /\ requests[r].at = "live" /\ requests[r].aborted = Never
                         THEN [requests[r] EXCEPT !.aborted = now] ELSE requests[r]
  <1>1. AbortAll(rs) = [r \in Requests |-> after(r)]
    BY DEF AbortAll
  <1>2. ASSUME NEW r \in Requests
        PROVE  /\ after(r) \in AnyRequest /\ after(r).at = requests[r].at
               /\ requests[r].at = "live" =>
                     /\ after(r) \in LiveRequest
                     /\ after(r).late = requests[r].late
                     /\ after(r).aborted = IF r \in rs /\ requests[r].aborted = Never
                                           THEN now ELSE requests[r].aborted
    <2>1. now \in Nat /\ requests[r] \in AnyRequest
      BY DEF Shapes
    <2>2. CASE r \in rs /\ requests[r].at = "live" /\ requests[r].aborted = Never
      <3>1. requests[r] \in LiveRequest
        BY <2>2, LiveShape
      <3>2. after(r) = [requests[r] EXCEPT !.aborted = now]
        BY <2>2
      <3> HIDE DEF after
      <3>3. /\ after(r) \in LiveRequest /\ after(r).aborted = now
            /\ after(r).late = requests[r].late
        BY <2>1, <3>1, <3>2, AbortOne
      <3>4. after(r).at = "live"
        BY <3>3 DEF LiveRequest
      <3> QED BY <2>2, <3>3, <3>4 DEF AnyRequest
    <2>3. CASE ~(r \in rs /\ requests[r].at = "live" /\ requests[r].aborted = Never)
      <3>1. after(r) = requests[r]
        BY <2>3
      <3>2. requests[r].at = "live" => requests[r] \in LiveRequest
        BY LiveShape
      <3> HIDE DEF after
      <3> QED BY <2>1, <2>3, <3>1, <3>2
    <2> QED BY <2>2, <2>3
  <1> HIDE DEF after
  <1> QED BY <1>1, <1>2

----------------------------------------------------------------------------
(* Steps of requests and of the watchdog: the process and its clock stand. *)

(* The change of one request, as the timers see it.                        *)
KeepsTime(r) ==
    /\ r \in Live' =>
          \/ /\ r \in Live /\ requests'[r].late = requests[r].late
             /\ \/ requests'[r].aborted = requests[r].aborted
                \/ requests[r].aborted = Never /\ requests'[r].aborted = now
          \/ r \in Connected /\ requests'[r].aborted = Never /\ requests'[r].late = process.drained
    /\ r \in Connected' => r \in Connected \/ Up

LEMMA TimeStands ==
  ASSUME ServiceInv, Shapes', UNCHANGED <<process, now>>, \A r \in Requests : KeepsTime(r)
  PROVE  Timely'
  <1>1. now \in Nat /\ {ReactsIn, CloseGraceMs, SettleMs} \subseteq Nat
    BY ServiceAssumption DEF ServiceInv, Shapes
  <1>2. Reacting'
    <2>1. ASSUME NEW r \in Live' PROVE requests'[r].aborted <= now
      <3>1. r \in Requests /\ (r \in Live => requests[r].aborted <= now)
        BY DEF Live, ServiceInv, Timely, Reacting
      <3> QED BY <1>1, <3>1 DEF KeepsTime, Never
    <2>2. ASSUME Running', NEW r \in Live' \ Hanging, requests'[r].aborted # Never
          PROVE  now <= requests'[r].aborted + ReactsIn
      <3>1. r \in Requests /\ Running
        BY <2>2 DEF Live, Running
      <3>2. CASE requests'[r].aborted = now
        BY <1>1, <3>2
      <3>3. CASE requests'[r].aborted # now
        <4>1. r \in Live /\ requests'[r].aborted = requests[r].aborted
          BY <2>2, <3>1, <3>3 DEF KeepsTime
        <4> QED BY <2>2, <3>1, <4>1 DEF ServiceInv, Timely, Reacting
      <3> QED BY <3>2, <3>3
    <2> QED BY <2>1, <2>2 DEF Reacting
  <1>3. Drained'
    <2>1. ASSUME process.phase \in {"closing", "settling"}, process.drained, NEW r \in Live'
          PROVE  \/ requests'[r].late
                 \/ requests'[r].aborted # Never /\ requests'[r].aborted <= process.drainAt
      <3>1. r \in Requests
        BY DEF Live
      <3>2. r \in Live => \/ requests[r].late
                          \/ requests[r].aborted # Never /\ requests[r].aborted <= process.drainAt
        BY <2>1 DEF ServiceInv, Timely, Drained
      <3> QED BY <2>1, <3>1, <3>2 DEF KeepsTime
    <2> QED BY <2>1 DEF ServiceInv, Timely, Drained, Up
  <1>4. Settling'
    <2>1. ASSUME process.phase \in {"settling", "down"}, Connected = {} PROVE Connected' = {}
      <3>1. Connected' \subseteq Requests /\ ~Up
        BY <2>1 DEF Connected, Up
      <3> QED BY <2>1, <3>1 DEF KeepsTime
    <2> QED BY <2>1 DEF ServiceInv, Timely, Settling
  <1> QED BY <1>2, <1>3, <1>4 DEF Timely

(* A step in which at most one request changes.                            *)
LEMMA OneRequestStep ==
  ASSUME ServiceInv, NEW r \in Requests, NEW q \in AnyRequest, journal' \subseteq Requests,
         requests' = [requests EXCEPT ![r] = q],
         UNCHANGED <<now, process, watching, file, starts>>,
         q.at = "live" =>
            \/ r \in Live /\ q = requests[r]
            \/ r \in Connected /\ q.aborted = Never /\ q.late = process.drained,
         q.at = "uploading" => Up
  PROVE  ServiceInv'
  <1>1. Shapes'
    BY DEF ServiceInv, Shapes
  <1>2. requests'[r] = q /\ \A s \in Requests \ {r} : requests'[s] = requests[s]
    BY DEF ServiceInv, Shapes
  <1>3. ASSUME NEW s \in Requests PROVE KeepsTime(s)
    <2>1. CASE s = r
      BY <1>2, <2>1 DEF KeepsTime, Live, Connected
    <2>2. CASE s # r
      BY <1>2, <2>2 DEF KeepsTime, Live, Connected
    <2> QED BY <2>1, <2>2
  <1>4. Timely'
    BY <1>1, <1>3, TimeStands
  <1>5. Watching' /\ FileIsTrue'
    BY DEF ServiceInv, Watching, FileIsTrue, watching, Running
  <1> QED BY <1>1, <1>4, <1>5 DEF ServiceInv

LEMMA AbortingStep ==
  ASSUME ServiceInv, NEW rs, requests' = AbortAll(rs), UNCHANGED <<now, process, journal, file, starts>>
  PROVE  Shapes' /\ FileIsTrue' /\ Timely'
  <1>1. Shapes
    BY DEF ServiceInv
  <1>2. /\ AbortAll(rs) \in [Requests -> AnyRequest]
        /\ \A r \in Requests :
              /\ AbortAll(rs)[r].at = requests[r].at
              /\ requests[r].at = "live" =>
                    /\ AbortAll(rs)[r] \in LiveRequest
                    /\ AbortAll(rs)[r].late = requests[r].late
                    /\ AbortAll(rs)[r].aborted = IF r \in rs /\ requests[r].aborted = Never
                                                 THEN now ELSE requests[r].aborted
    BY <1>1, AbortAllDoes
  <1>3. Shapes'
    BY <1>1, <1>2 DEF Shapes
  <1>4. ASSUME NEW r \in Requests PROVE KeepsTime(r)
    BY <1>2 DEF KeepsTime, Live, Connected
  <1>5. Timely'
    BY <1>3, <1>4, TimeStands
  <1> QED BY <1>3, <1>5 DEF ServiceInv, FileIsTrue, Running

LEMMA RequestStep ==
  ASSUME ServiceInv, NEW r \in Requests, Request(r)
  PROVE  ServiceInv'
  <1>1. Shapes /\ now \in Nat /\ process.drained \in BOOLEAN
    BY DEF ServiceInv, Shapes, Process
  <1>2. CASE Arrive(r)
    <2> DEFINE q == [at |-> "uploading", since |-> now]
    <2>1. q \in AnyRequest /\ q.at = "uploading"
      BY <1>1 DEF AnyRequest, Uploading
    <2>2. journal' \subseteq Requests /\ Up /\ requests' = [requests EXCEPT ![r] = q]
      BY <1>2 DEF Arrive, ServiceInv, Shapes
    <2>3. UNCHANGED <<now, process, watching, file, starts>>
      BY <1>2 DEF Arrive
    <2> HIDE DEF q
    <2> QED BY <2>1, <2>2, <2>3, OneRequestStep
  <1>3. CASE Register(r)
    <2> DEFINE q == [at |-> "live", since |-> requests[r].since, aborted |-> Never,
                     late |-> process.drained]
    <2>1. requests[r] \in Uploading
      BY <1>1, <1>3, LiveShape DEF Register
    <2>2. q \in AnyRequest /\ q.at = "live" /\ q.aborted = Never /\ q.late = process.drained
      BY <1>1, <2>1 DEF AnyRequest, LiveRequest, Uploading
    <2>3. journal' \subseteq Requests /\ r \in Connected /\ requests' = [requests EXCEPT ![r] = q]
      BY <1>3 DEF Register, ServiceInv, Shapes, Connected
    <2>4. UNCHANGED <<now, process, watching, file, starts>>
      BY <1>3 DEF Register
    <2> HIDE DEF q
    <2> QED BY <2>2, <2>3, <2>4, OneRequestStep
  <1>4. CASE UploadBreaks(r) \/ Finish(r)
    <2>1. Away \in AnyRequest /\ Away.at = "away"
      BY DEF AnyRequest, Away
    <2>2. journal' \subseteq Requests /\ requests' = [requests EXCEPT ![r] = Away]
      BY <1>4 DEF UploadBreaks, Finish, ServiceInv, Shapes
    <2>3. UNCHANGED <<now, process, watching, file, starts>>
      BY <1>4 DEF UploadBreaks, Finish
    <2> QED BY <2>1, <2>2, <2>3, OneRequestStep
  <1>5. CASE ClientLeaves(r)
    <2>1. requests' = AbortAll({r}) /\ UNCHANGED <<now, process, journal, file, starts>>
      BY <1>5 DEF ClientLeaves
    <2>2. Shapes' /\ FileIsTrue' /\ Timely'
      BY <2>1, AbortingStep
    <2>3. Watching'
      BY <1>5 DEF ClientLeaves, ServiceInv, Watching, watching
    <2> QED BY <2>2, <2>3 DEF ServiceInv
  <1> QED BY <1>2, <1>3, <1>4, <1>5 DEF Request

(* The ticks of the watchdog, overlapping as they may.                     *)
LEMMA WatchStep ==
  ASSUME ServiceInv, NEW w \in Ticks, Watch(w)
  PROVE  ServiceInv'
  <1> DEFINE Looking == {Asleep} \cup [at: {"looking", "telling"}, left: SUBSET Requests]
  <1>1. /\ watch \in [Ticks -> Looking] /\ stuck \in SUBSET Requests /\ told \in [Requests -> Nat]
        /\ \A r \in Requests : told[r] <= 1 /\ (r \notin stuck => told[r] = 0)
        /\ Shapes /\ FileIsTrue /\ Timely
    BY DEF ServiceInv, Watching
  <1>2. watch[w].at # "asleep" =>
            watch[w] \in [at: {"looking", "telling"}, left: SUBSET Requests]
    BY <1>1 DEF Asleep
  <1>3. ASSUME UNCHANGED <<now, process, requests, journal, file, starts>>
        PROVE  Shapes' /\ FileIsTrue' /\ Timely'
    BY <1>1, <1>3 DEF Shapes, FileIsTrue, Timely, Reacting, Drained, Settling, Running, Live, Up,
         Connected
  <1>4. ASSUME NEW q \in Looking, watch' = [watch EXCEPT ![w] = q], UNCHANGED <<stuck, told>>
        PROVE  Watching'
    <2>1. watch' \in [Ticks -> Looking]
      BY <1>1, <1>4
    <2> QED BY <1>1, <1>4, <2>1 DEF Watching
  <1>5. CASE WatchStart(w)
    <2> DEFINE q == [at |-> "looking", left |-> {r \in Live : IsStuck(r, now)}]
    <2>1. q \in Looking
      BY DEF Live
    <2>2. watch' = [watch EXCEPT ![w] = q]
          /\ UNCHANGED <<now, process, requests, journal, stuck, told, file, starts>>
      BY <1>5 DEF WatchStart
    <2> HIDE DEF q, Looking
    <2> QED BY <1>3, <1>4, <2>1, <2>2 DEF ServiceInv
  <1>6. CASE WatchTold(w)
    <2> DEFINE q == [watch[w] EXCEPT !.at = "looking"]
    <2>1. q \in Looking
      BY <1>2, <1>6 DEF WatchTold
    <2>2. watch' = [watch EXCEPT ![w] = q]
          /\ UNCHANGED <<now, process, requests, journal, stuck, told, file, starts>>
      BY <1>6 DEF WatchTold
    <2> HIDE DEF q, Looking
    <2> QED BY <1>3, <1>4, <2>1, <2>2 DEF ServiceInv
  <1>7. CASE WatchEnds(w)
    <2>1. Asleep \in Looking
      OBVIOUS
    <2>2. watch' = [watch EXCEPT ![w] = Asleep]
          /\ UNCHANGED <<now, process, requests, journal, stuck, told, file, starts>>
      BY <1>7 DEF WatchEnds
    <2> HIDE DEF Looking
    <2> QED BY <1>3, <1>4, <2>1, <2>2 DEF ServiceInv
  <1>8. ASSUME NEW r \in Requests, WatchLooks(w, r)
        PROVE  ServiceInv'
    <2>1. watch[w] \in [at: {"looking", "telling"}, left: SUBSET Requests]
      BY <1>2, <1>8 DEF WatchLooks
    <2>2. CASE WatchSkip(w, r)
      <3> DEFINE q == [watch[w] EXCEPT !.left = @ \ {r}]
      <3>1. q \in Looking
        BY <2>1
      <3>2. watch' = [watch EXCEPT ![w] = q]
            /\ UNCHANGED <<now, process, requests, journal, stuck, told, file, starts>>
        BY <1>8, <2>2 DEF WatchLooks, WatchSkip
      <3> HIDE DEF q, Looking
      <3> QED BY <1>3, <1>4, <3>1, <3>2 DEF ServiceInv
    <2>3. CASE WatchAborts(w, r)
      <3> DEFINE q == [at |-> "telling", left |-> watch[w].left \ {r}]
      <3>1. q \in Looking
        BY <2>1
      <3>2. /\ watch' = [watch EXCEPT ![w] = q] /\ requests' = AbortAll({r})
            /\ UNCHANGED <<now, process, journal, file, starts>>
            /\ r \notin stuck /\ stuck' = stuck \cup {r} /\ told' = [told EXCEPT ![r] = @ + 1]
        <4>1. watch' = [watch EXCEPT ![w].at = "telling", ![w].left = @ \ {r}]
          BY <2>3 DEF WatchAborts
        <4>2. watch[w] = [at |-> watch[w].at, left |-> watch[w].left]
          BY <2>1
        <4>3. watch'[w] = q /\ DOMAIN watch' = Ticks
          BY <1>1, <4>1, <4>2
        <4>4. \A u \in Ticks \ {w} : watch'[u] = watch[u]
          BY <1>1, <4>1
        <4>5. watch' = [u \in Ticks |-> watch'[u]]
          BY <1>1, <4>1
        <4> HIDE DEF q
        <4>6. watch' = [watch EXCEPT ![w] = q]
          BY <1>1, <4>3, <4>4, <4>5
        <4> QED BY <1>8, <2>3, <4>6 DEF WatchLooks, WatchAborts
      <3>3. Shapes' /\ FileIsTrue' /\ Timely'
        BY <3>2, AbortingStep
      <3> HIDE DEF q
      <3>4. watch' \in [Ticks -> Looking]
        BY <1>1, <3>1, <3>2
      <3>5. /\ told' \in [Requests -> Nat]
            /\ \A s \in Requests : told'[s] <= 1 /\ (s \notin stuck' => told'[s] = 0)
        BY <1>1, <3>2
      <3> QED BY <1>1, <3>2, <3>3, <3>4, <3>5 DEF ServiceInv, Watching
    <2> QED BY <1>8, <2>2, <2>3 DEF WatchLooks
  <1> QED BY <1>5, <1>6, <1>7, <1>8 DEF Watch

----------------------------------------------------------------------------
(* Steps of the process.                                                   *)
LEMMA SigtermStep == ServiceInv /\ Sigterm => ServiceInv'
  <1> SUFFICES ASSUME ServiceInv, Sigterm PROVE ServiceInv'
    OBVIOUS
  <1>1. /\ now \in Nat /\ process \in Process /\ process.phase = "up" /\ ~process.drained
        /\ {DrainMs, CloseGraceMs} \subseteq Nat
    BY ServiceAssumption DEF Sigterm, Up, ServiceInv, Shapes, Timely, Drained
  <1>2. /\ process' \in Process /\ process'.phase = "closing" /\ ~process'.drained
        /\ process'.drainAt = now + DrainMs /\ process'.giveUpAt = now + DrainMs + CloseGraceMs
        /\ process'.startedAt = process.startedAt
        /\ UNCHANGED <<now, requests, journal, watching, file, starts>>
    <2> DEFINE drain == now + DrainMs
               giveUp == now + DrainMs + CloseGraceMs
    <2>1. drain \in Nat /\ giveUp \in Nat
      BY <1>1
    <2>2. process' = [process EXCEPT !.phase = "closing", !.drainAt = drain, !.giveUpAt = giveUp]
      BY DEF Sigterm, Closing
    <2> HIDE DEF drain, giveUp
    <2>3. /\ process' \in Process /\ process'.phase = "closing" /\ ~process'.drained
          /\ process'.drainAt = drain /\ process'.giveUpAt = giveUp
          /\ process'.startedAt = process.startedAt
      BY <1>1, <2>1, <2>2 DEF Process
    <2> QED BY <2>3 DEF Sigterm, drain, giveUp
  <1>3. Shapes' /\ Watching' /\ FileIsTrue'
    BY <1>1, <1>2 DEF ServiceInv, Shapes, Watching, watching, FileIsTrue, Running
  <1>4. Timely'
    BY <1>1, <1>2 DEF ServiceInv, Timely, Reacting, Drained, Settling, Running, Live, Up
  <1> QED BY <1>3, <1>4 DEF ServiceInv

LEMMA DrainStep == ServiceInv /\ Drain => ServiceInv'
  <1> SUFFICES ASSUME ServiceInv, Drain PROVE ServiceInv'
    OBVIOUS
  <1>1. /\ now \in Nat /\ process \in Process /\ process.phase = "closing" /\ ~process.drained
        /\ process.drainAt = now /\ process.giveUpAt = process.drainAt + CloseGraceMs
        /\ process.giveUpAt \in Nat /\ ReactsIn \in Nat /\ Shapes
    BY ServiceAssumption DEF Drain, DrainDue, ServiceInv, Shapes, Timely, Drained
  <1>2. /\ process' \in Process /\ process'.phase = "closing" /\ process'.drained
        /\ process'.drainAt = process.drainAt /\ process'.giveUpAt = process.giveUpAt
        /\ process'.startedAt = process.startedAt
        /\ requests' = AbortAll(Live)
        /\ UNCHANGED <<now, journal, watching, file, starts>>
    BY <1>1 DEF Drain, Process
  <1>3. /\ AbortAll(Live) \in [Requests -> AnyRequest]
        /\ \A r \in Requests :
              /\ AbortAll(Live)[r].at = requests[r].at
              /\ requests[r].at = "live" =>
                    /\ AbortAll(Live)[r] \in LiveRequest
                    /\ AbortAll(Live)[r].late = requests[r].late
                    /\ AbortAll(Live)[r].aborted = IF r \in Live /\ requests[r].aborted = Never
                                                   THEN now ELSE requests[r].aborted
    BY <1>1, AbortAllDoes
  <1>4. Shapes' /\ Watching' /\ FileIsTrue'
    BY <1>1, <1>2, <1>3 DEF ServiceInv, Shapes, Watching, watching, FileIsTrue, Running
  <1>5. ASSUME NEW r \in Live'
        PROVE  /\ r \in Live /\ r \in Requests
               /\ requests'[r].aborted = IF requests[r].aborted = Never THEN now
                                         ELSE requests[r].aborted
    BY <1>2, <1>3, <1>5 DEF Live
  <1>6. Reacting'
    <2>1. \A r \in Live' : requests'[r].aborted <= now'
      BY <1>1, <1>2, <1>5 DEF ServiceInv, Timely, Reacting
    <2>2. ASSUME NEW r \in Live' \ Hanging PROVE now' <= requests'[r].aborted + ReactsIn
      BY <1>1, <1>2, <1>5, <2>2 DEF ServiceInv, Timely, Reacting, Running
    <2> QED BY <2>1, <2>2 DEF Reacting
  <1>7. \A r \in Live' : requests'[r].aborted # Never /\ requests'[r].aborted <= now
    <2> SUFFICES ASSUME NEW r \in Live' PROVE requests'[r].aborted # Never /\ requests'[r].aborted <= now
      OBVIOUS
    <2>1. requests[r].aborted <= now
      BY <1>5 DEF ServiceInv, Timely, Reacting
    <2> QED BY <1>1, <1>5, <2>1 DEF Never
  <1>8. Drained' /\ Settling'
    BY <1>1, <1>2, <1>7 DEF Drained, Settling, Up
  <1> QED BY <1>4, <1>6, <1>8 DEF ServiceInv, Timely

LEMMA CloseStep == ServiceInv /\ ClosedOrGivenUp => ServiceInv'
  <1> SUFFICES ASSUME ServiceInv, ClosedOrGivenUp PROVE ServiceInv'
    OBVIOUS
  <1>1. /\ now \in Nat /\ process \in Process /\ process.phase = "closing"
        /\ process.drainAt \in Nat /\ process.giveUpAt = process.drainAt + CloseGraceMs
        /\ {CloseGraceMs, SettleMs} \subseteq Nat
    BY ServiceAssumption DEF ClosedOrGivenUp, ServiceInv, Shapes, Timely, Drained
  <1>2. /\ process' \in Process /\ process'.phase = "settling" /\ process'.drained = process.drained
        /\ process'.drainAt = process.drainAt /\ process'.giveUpAt = now + SettleMs
        /\ process'.startedAt = process.startedAt
        /\ UNCHANGED <<now, requests, journal, watching, file, starts>>
    <2> DEFINE giveUp == now + SettleMs
    <2>1. giveUp \in Nat
      BY <1>1
    <2>2. process' = [process EXCEPT !.phase = "settling", !.giveUpAt = giveUp]
      BY DEF ClosedOrGivenUp
    <2> HIDE DEF giveUp
    <2>3. /\ process' \in Process /\ process'.phase = "settling"
          /\ process'.drained = process.drained /\ process'.drainAt = process.drainAt
          /\ process'.giveUpAt = giveUp /\ process'.startedAt = process.startedAt
      BY <1>1, <2>1, <2>2 DEF Process
    <2> QED BY <2>3 DEF ClosedOrGivenUp, giveUp
  <1>3. Shapes' /\ Watching' /\ FileIsTrue'
    BY <1>1, <1>2 DEF ServiceInv, Shapes, Watching, watching, FileIsTrue, Running
  <1>4. Reacting' /\ Drained'
    BY <1>1, <1>2 DEF ServiceInv, Timely, Reacting, Drained, Running, Live, Up
  <1>5. Settling'
    BY <1>1, <1>2 DEF Settling, ClosedOrGivenUp, DrainDue, Connected
  <1> QED BY <1>3, <1>4, <1>5 DEF ServiceInv, Timely

LEMMA GoneStep ==
  ASSUME ServiceInv, Running, NEW gracefully \in BOOLEAN, Gone(gracefully),
         file' = IF gracefully THEN Stopped ELSE file
  PROVE  ServiceInv'
  <1>1. /\ now \in Nat /\ process \in Process /\ file \in [startedAt: Nat, stoppedAt: Nat \cup {Never}]
        /\ file.startedAt = process.startedAt /\ file.stoppedAt = Never /\ process.startedAt <= now
    BY DEF ServiceInv, Shapes, FileIsTrue
  <1>2. /\ process' \in Process /\ process'.phase = "down" /\ process'.startedAt = process.startedAt
        /\ process'.ended.at = now /\ process'.ended.gracefully = gracefully
        /\ UNCHANGED <<now, journal, starts>>
    BY <1>1 DEF Gone, Process
  <1>3. /\ file' \in [startedAt: Nat, stoppedAt: Nat \cup {Never}]
        /\ file'.startedAt = file.startedAt
        /\ file'.stoppedAt = IF gracefully THEN now ELSE Never
    BY <1>1 DEF Stopped
  <1>4. requests' \in [Requests -> AnyRequest]
    BY DEF Gone, AnyRequest
  <1>5. Watching'
    BY DEF Gone, Watching
  <1>6. Shapes' /\ FileIsTrue'
    BY <1>1, <1>2, <1>3, <1>4 DEF ServiceInv, Shapes, FileIsTrue, Running
  <1>7. Timely'
    <2>1. \A r \in Requests : requests'[r].at \in {"idle", "away"}
      BY DEF Gone, Idle, Away
    <2>2. Live' = {} /\ Connected' = {}
      BY <2>1 DEF Live, Connected
    <2> QED BY <1>2, <2>2 DEF Timely, Reacting, Drained, Settling, Running, Up
  <1> QED BY <1>5, <1>6, <1>7 DEF ServiceInv

LEMMA StartStep ==
  ASSUME ServiceInv, Start
  PROVE  /\ ServiceInv'
         /\ LET ran == process.ended.at - process.startedAt
            IN  IF process.ended.gracefully THEN process'.uptime = ran ELSE process'.uptime >= ran
  <1>1. /\ now \in Nat /\ starts \in 0..MaxStarts /\ MaxStarts \in Nat /\ starts < MaxStarts
        /\ file.startedAt = process.startedAt /\ file.startedAt \in Nat
        /\ process.ended.at \in Nat /\ process.startedAt <= process.ended.at
        /\ process.ended.at <= now /\ process.phase = "down"
        /\ file.stoppedAt = IF process.ended.gracefully THEN process.ended.at ELSE Never
        /\ process.ended.gracefully \in BOOLEAN
    BY ServiceAssumption DEF Start, ServiceInv, Shapes, FileIsTrue, Process
  <1>2. /\ PrevUptime \in Nat
        /\ PrevUptime = IF process.ended.gracefully THEN process.ended.at - process.startedAt
                        ELSE now - process.startedAt
    BY <1>1 DEF PrevUptime, Never
  <1>3. /\ process' = [FreshProcess(now) EXCEPT !.uptime = PrevUptime]
        /\ file' = [startedAt |-> now, stoppedAt |-> Never]
        /\ starts' = starts + 1 /\ UNCHANGED <<now, requests, journal, watching>>
    BY DEF Start, Started
  <1>4. /\ process' \in Process /\ process'.phase = "up" /\ process'.startedAt = now
        /\ process'.uptime = PrevUptime /\ ~process'.drained
    BY <1>1, <1>2, <1>3 DEF FreshProcess, Process
  <1>5. Shapes' /\ Watching' /\ FileIsTrue'
    BY <1>1, <1>3, <1>4 DEF ServiceInv, Shapes, Watching, watching, FileIsTrue, Running
  <1>6. Timely'
    <2>1. Live' = {} /\ Connected' = {}
      BY <1>1, <1>3 DEF ServiceInv, Timely, Settling, Live, Connected
    <2> QED BY <1>4, <2>1 DEF Timely, Reacting, Drained, Settling, Up
  <1>7. IF process.ended.gracefully
        THEN process'.uptime = process.ended.at - process.startedAt
        ELSE process'.uptime >= process.ended.at - process.startedAt
    BY <1>1, <1>2, <1>4
  <1> QED BY <1>5, <1>6, <1>7 DEF ServiceInv

(* Time waits for timers that are due and for what must have answered.     *)
LEMMA PassStep == ServiceInv /\ Pass => ServiceInv'
  <1> SUFFICES ASSUME ServiceInv, Pass PROVE ServiceInv'
    OBVIOUS
  <1>1. /\ now \in Nat /\ now' = now + 1 /\ ~Overdue /\ Shapes
        /\ UNCHANGED <<process, requests, journal, watching, file, starts>>
        /\ {ReactsIn, CloseGraceMs, SettleMs} \subseteq Nat
    BY ServiceAssumption DEF Pass, ServiceInv, Shapes
  <1>2. Shapes' /\ Watching' /\ FileIsTrue'
    BY <1>1 DEF ServiceInv, Shapes, Watching, watching, FileIsTrue, Running, Process
  <1>3. Reacting'
    <2>1. ASSUME NEW r \in Live' PROVE r \in Live /\ requests'[r].aborted \in Nat \cup {Never}
      <3>1. r \in Live /\ r \in Requests
        BY <1>1 DEF Live
      <3>2. requests[r] \in LiveRequest
        BY <1>1, <3>1, LiveShape DEF Live
      <3> QED BY <1>1, <3>1, <3>2 DEF LiveRequest
    <2>2. \A r \in Live' : requests'[r].aborted <= now'
      BY <1>1, <2>1 DEF ServiceInv, Timely, Reacting, Never
    <2>3. ASSUME Running', NEW r \in Live' \ Hanging, requests'[r].aborted # Never
          PROVE  now' <= requests'[r].aborted + ReactsIn
      <3>1. Running /\ r \in Live \ Hanging /\ requests[r].aborted \in Nat
        BY <1>1, <2>1, <2>3 DEF Running
      <3>2. ~(now >= requests[r].aborted + ReactsIn)
        BY <1>1, <2>3, <3>1 DEF Overdue
      <3> QED BY <1>1, <3>1, <3>2
    <2> QED BY <2>2, <2>3 DEF Reacting
  <1>4. Drained'
    BY <1>1 DEF ServiceInv, Timely, Drained, Overdue, DrainDue, Live, Up
  <1>5. Settling'
    BY <1>1 DEF ServiceInv, Timely, Settling, Connected
  <1> QED BY <1>2, <1>3, <1>4, <1>5 DEF ServiceInv, Timely

LEMMA ServiceStart == Init => ServiceInv
  <1> SUFFICES ASSUME Init PROVE ServiceInv
    OBVIOUS
  <1>1. /\ now = 0 /\ MaxStarts \in Nat /\ starts = 0 /\ journal = {}
        /\ process = FreshProcess(0) /\ file = [startedAt |-> 0, stoppedAt |-> Never]
        /\ requests = [r \in Requests |-> Idle]
    BY ServiceAssumption DEF Init
  <1>2. process \in Process /\ process.phase = "up" /\ process.startedAt = 0 /\ ~process.drained
    BY <1>1 DEF Process, FreshProcess
  <1>3. Shapes /\ FileIsTrue
    BY <1>1, <1>2 DEF Shapes, FileIsTrue, AnyRequest, Running
  <1>4. Watching
    BY DEF Init, Watching
  <1>5. Live = {} /\ Connected = {}
    BY <1>1 DEF Live, Connected, Idle
  <1>6. Timely
    BY <1>2, <1>5 DEF Timely, Reacting, Drained, Settling, Up
  <1> QED BY <1>3, <1>4, <1>6 DEF ServiceInv

LEMMA ServiceStep == ServiceInv /\ [Next]_vars => ServiceInv'
  <1> SUFFICES ASSUME ServiceInv, [Next]_vars PROVE ServiceInv'
    OBVIOUS
  <1>1. ASSUME Exit PROVE ServiceInv'
    <2>1. Running /\ Gone(TRUE) /\ file' = Stopped
      BY <1>1 DEF Exit, Running
    <2> QED BY <2>1, GoneStep
  <1>2. ASSUME Crash PROVE ServiceInv'
    <2>1. Running /\ Gone(FALSE) /\ file' = file
      BY <1>2 DEF Crash
    <2> QED BY <2>1, GoneStep
  <1>3. ASSUME Start PROVE ServiceInv'
    BY <1>3, StartStep
  <1>4. CASE UNCHANGED vars
    BY <1>4 DEF vars, watching, ServiceInv, Shapes, Watching, FileIsTrue, Timely, Reacting, Drained,
       Settling, Running, Live, Connected, Up
  <1> QED BY <1>1, <1>2, <1>3, <1>4, RequestStep, WatchStep, SigtermStep, DrainStep, CloseStep,
             PassStep DEF Next, Shutdown

----------------------------------------------------------------------------
(* However its ticks overlap (watchdog/ticker.ts), the watchdog tells and  *)
(* aborts a stuck request once; the types hold.                            *)
THEOREM WatchdogKept == Spec => []WatchdogSound
  <1>1. ServiceInv => WatchdogSound
    <2> SUFFICES ASSUME ServiceInv PROVE WatchdogSound
      OBVIOUS
    <2>1. \A r \in Requests : requests[r].at \in {"idle", "uploading", "live", "away"}
      BY LiveShape DEF ServiceInv
    <2>2. \A w \in Ticks : watch[w] = Asleep \/ watch[w].left \subseteq Requests
      BY DEF ServiceInv, Watching
    <2>3. TypeOK
      BY <2>1, <2>2 DEF ServiceInv, Shapes, Watching, Process, TypeOK
    <2>4. StuckToldOnce
      BY DEF ServiceInv, Watching, StuckToldOnce
    <2> QED BY <2>3, <2>4 DEF WatchdogSound
  <1> QED BY ServiceStart, ServiceStep, <1>1, PTL DEF Spec

(* A graceful exit (shutdown.ts, server.ts) has the row of every request   *)
(* that reacts to its abort and was admitted before the drain was over; and *)
(* the next start tells the uptime of the process that stopped.            *)
THEOREM ExitsAreHonest == Spec => ExitIsHonest
  <1>1. ServiceInv /\ [Next]_vars => [Exit => \A r \in Live : r \in Hanging \/ requests[r].late]_vars
    <2> SUFFICES ASSUME ServiceInv, Exit, NEW r \in Live, r \notin Hanging
                 PROVE  requests[r].late
      OBVIOUS
    <2>1. r \in Connected /\ process.phase = "settling" /\ now >= process.giveUpAt
      BY DEF Exit, Live, Connected
    <2>2. /\ process.drained /\ process.giveUpAt >= process.drainAt + CloseGraceMs + SettleMs
          /\ process.drainAt \in Nat /\ process.giveUpAt \in Nat /\ now \in Nat
          /\ {ReactsIn, CloseGraceMs, SettleMs} \subseteq Nat /\ ReactsIn < CloseGraceMs + SettleMs
      BY <2>1, ServiceAssumption DEF ServiceInv, Shapes, Timely, Settling, Drained
    <2>3. requests[r].late \/ (requests[r].aborted # Never /\ requests[r].aborted <= process.drainAt)
      BY <2>1, <2>2 DEF ServiceInv, Timely, Drained
    <2>4. requests[r].aborted # Never => now <= requests[r].aborted + ReactsIn
      BY <2>1 DEF ServiceInv, Timely, Reacting, Running
    <2>5. requests[r].aborted \in Nat \cup {Never}
      <3>1. requests[r] \in LiveRequest
        BY LiveShape DEF ServiceInv, Live
      <3> QED BY <3>1 DEF LiveRequest
    <2> QED BY <2>1, <2>2, <2>3, <2>4, <2>5 DEF Never
  <1>2. ServiceInv /\ [Next]_vars
        => [Start => LET ran == process.ended.at - process.startedAt
                     IN  IF process.ended.gracefully THEN process'.uptime = ran
                         ELSE process'.uptime >= ran]_vars
    BY StartStep
  <1> QED BY ServiceStart, ServiceStep, <1>1, <1>2, PTL DEF Spec, ExitIsHonest, ExitKeepsRows, UptimeIsTrue

----------------------------------------------------------------------------
(* The alert engine.                                                       *)

Marks == UNION {[ks -> Nat] : ks \in SUBSET Keys}

Memory ==
    [streaks: [Clients -> Nat], hadErrors: [Clients -> BOOLEAN], lastSent: Marks,
     counted: [Clients -> Nat], wiped: [Clients -> BOOLEAN], told: Marks, tooSoon: BOOLEAN]

HasError(rows, contour) ==
    \E i \in DOMAIN rows : rows[i].contour = contour /\ rows[i].status = "error"

(* Every message with a cooldown left its mark, in time.                   *)
GoodMarks(g, rows) ==
    /\ g \in Memory
    /\ g.told = g.lastSent /\ ~g.tooSoon
    /\ \A k \in DOMAIN g.lastSent : g.lastSent[k] <= clock
    /\ \A c \in Contours : <<"rate", c>> \in DOMAIN g.lastSent => HasError(rows, c)

SameCounts(g, h) ==
    h.streaks = g.streaks /\ h.hadErrors = g.hadErrors /\ h.counted = g.counted /\ h.wiped = g.wiped

Recovering(c) == \E s \in Slots : waiting[s].stop = "recovered" /\ waiting[s].event.client = c

CountOf(g, c) ==
    \/ g.streaks[c] = g.counted[c]
    \/ g.wiped[c] /\ g.streaks[c] < g.counted[c]
    \/ Recovering(c) /\ g.streaks[c] > g.counted[c]

AlertsInv ==
    /\ clock \in 0..MaxClock /\ events \in 0..MaxEvents
    /\ recorded \in Seq([contour: Contours, status: Statuses])
    /\ waiting \in [Slots -> {NoEvent} \cup [stop: Stops, event: Event]]
    /\ GoodMarks(engine, recorded)
    /\ \A c \in Clients : CountOf(engine, c)

(* The messages of this module are about things that are keys.             *)
LEMMA PutMarks ==
  ASSUME NEW f \in Marks, NEW key \in Keys, NEW v \in Nat
  PROVE  /\ Put(f, key, v) \in Marks
         /\ DOMAIN Put(f, key, v) = DOMAIN f \cup {key}
         /\ Put(f, key, v)[key] = v
         /\ \A k \in DOMAIN f \ {key} : Put(f, key, v)[k] = f[k]
  <1>1. PICK ks \in SUBSET Keys : f \in [ks -> Nat]
    BY DEF Marks
  <1>2. Put(f, key, v) \in [ks \cup {key} -> Nat] /\ ks \cup {key} \in SUBSET Keys
    BY <1>1 DEF Put
  <1>3. Put(f, key, v) \in Marks
    BY <1>2 DEF Marks
  <1> QED BY <1>1, <1>3 DEF Put

LEMMA MarkedIsGood ==
  ASSUME clock \in Nat, NEW g, NEW rows, GoodMarks(g, rows), NEW key \in Keys, ShouldSend(g, key),
         key[1] = "rate" => HasError(rows, key[2])
  PROVE  GoodMarks(Marked(g, key), rows) /\ SameCounts(g, Marked(g, key))
  <1>1. key[1] \in Kinds /\ key = <<key[1], key[2]>>
    BY DEF Keys
  <1>2. Cooldown[key[1]] \in Nat
    BY <1>1, AlertsAssumption
  <1>3. CASE Cooldown[key[1]] = 0
    BY <1>3 DEF Marked, SameCounts
  <1>4. CASE Cooldown[key[1]] # 0
    <2> DEFINE marks == Put(g.lastSent, key, clock)
    <2>1. g \in Memory /\ g.lastSent \in Marks /\ g.told = g.lastSent /\ ~g.tooSoon
      BY DEF GoodMarks, Memory
    <2>2. /\ marks \in Marks /\ DOMAIN marks = DOMAIN g.lastSent \cup {key} /\ marks[key] = clock
          /\ \A k \in DOMAIN g.lastSent \ {key} : marks[k] = g.lastSent[k]
      <3> DEFINE f == g.lastSent
      <3>1. f \in Marks
        BY <2>1
      <3> HIDE DEF f
      <3>2. /\ Put(f, key, clock) \in Marks
            /\ DOMAIN Put(f, key, clock) = DOMAIN f \cup {key}
            /\ Put(f, key, clock)[key] = clock
            /\ \A k \in DOMAIN f \ {key} : Put(f, key, clock)[k] = f[k]
        BY <3>1, PutMarks
      <3> QED BY <3>2 DEF f
    <2>3. ~(key \in DOMAIN g.told /\ clock - g.told[key] < Cooldown[key[1]])
      <3> SUFFICES ASSUME key \in DOMAIN g.lastSent
                   PROVE  ~(clock - g.lastSent[key] < Cooldown[key[1]])
        BY <2>1
      <3>1. clock - g.lastSent[key] >= Cooldown[key[1]]
        BY <1>4 DEF ShouldSend
      <3>2. g.lastSent[key] \in Nat
        BY <2>1 DEF Marks
      <3> QED BY <1>2, <3>1, <3>2
    <2> HIDE DEF marks
    <2>4. Sent(g, key) = [g EXCEPT !.told = marks, !.tooSoon = FALSE]
      BY <2>1, <2>3 DEF Sent, marks
    <2>5. Sent(g, key) \in Memory /\ Sent(g, key).lastSent = g.lastSent
          /\ Sent(g, key).told = marks /\ Sent(g, key).tooSoon = FALSE /\ SameCounts(g, Sent(g, key))
      BY <2>1, <2>2, <2>4 DEF Memory, SameCounts
    <2>6. Marked(g, key) = [Sent(g, key) EXCEPT !.lastSent = marks]
      BY <1>4, <2>5 DEF Marked, marks
    <2>7. /\ Marked(g, key) \in Memory /\ Marked(g, key).lastSent = marks
          /\ Marked(g, key).told = marks /\ Marked(g, key).tooSoon = FALSE
          /\ SameCounts(g, Marked(g, key))
      BY <2>2, <2>5, <2>6 DEF Memory, SameCounts
    <2>8. \A k \in DOMAIN marks : marks[k] <= clock
      BY <2>2 DEF GoodMarks
    <2>9. ASSUME NEW c \in Contours, <<"rate", c>> \in DOMAIN marks PROVE HasError(rows, c)
      <3>1. CASE <<"rate", c>> \in DOMAIN g.lastSent
        BY <3>1 DEF GoodMarks
      <3>2. CASE <<"rate", c>> = key
        BY <3>2
      <3> QED BY <2>2, <2>9, <3>1, <3>2
    <2> QED BY <2>7, <2>8, <2>9 DEF GoodMarks
  <1> QED BY <1>3, <1>4

(* fire: a good mark and nothing counted, or what comes otherwise.         *)
LEMMA FireIsGood ==
  ASSUME clock \in Nat, NEW g, NEW rows, GoodMarks(g, rows), NEW key \in Keys,
         key[1] = "rate" => HasError(rows, key[2]), NEW stop, NEW otherwise
  PROVE  LET t == Fire(g, key, stop, otherwise)
         IN  \/ t = otherwise
             \/ GoodMarks(t.engine, rows) /\ SameCounts(g, t.engine) /\ t.stop = stop
  <1>1. CASE ShouldSend(g, key)
    BY <1>1, MarkedIsGood DEF Fire, Turn
  <1>2. CASE ~ShouldSend(g, key)
    BY <1>2 DEF Fire
  <1> QED BY <1>1, <1>2

LEMMA TooManyHasError ==
  ASSUME NEW rows \in Seq([contour: Contours, status: Statuses]), NEW c, TooManyErrors(rows, c)
  PROVE  HasError(rows, c)
  <1> DEFINE recent == Recent(rows, c)
             wrong  == {i \in recent : rows[i].status = "error"}
  <1>1. DOMAIN rows = 1..Len(rows) /\ Len(rows) \in Nat
    BY LenProperties
  <1>2. recent \in SUBSET (1..Len(rows))
    BY <1>1 DEF Recent
  <1>3. IsFiniteSet(recent) /\ Cardinality(recent) \in Nat
    <2> HIDE DEF recent
    <2>1. IsFiniteSet(1..Len(rows))
      BY <1>1, FS_Interval
    <2>2. IsFiniteSet(recent)
      BY <1>2, <2>1, FS_Subset
    <2> QED BY <2>2, FS_CardinalityType
  <1>4. 100 * Cardinality(wrong) > RatePercent * Cardinality(recent) /\ RatePercent \in Nat
    BY AlertsAssumption DEF TooManyErrors, TooMany
  <1>5. \A m, n \in Nat : m * n \in Nat
    OBVIOUS
  <1>6. RatePercent * Cardinality(recent) \in Nat
    BY <1>3, <1>4, <1>5
  <1>7. wrong # {}
    <2>1. Cardinality({}) = 0
      BY FS_EmptySet
    <2>2. SUFFICES ASSUME wrong = {} PROVE FALSE
      OBVIOUS
    <2>3. Cardinality(wrong) = 0
      BY <2>1, <2>2
    <2> HIDE DEF wrong, recent
    <2> QED BY <1>4, <1>6, <2>3
  <1>8. PICK i \in wrong : TRUE
    BY <1>7
  <1>9. i \in DOMAIN rows /\ rows[i].contour = c /\ rows[i].status = "error"
    BY <1>8 DEF Recent
  <1> QED BY <1>9 DEF HasError

(* What a turn of onEvent does to the counters of the client of its event. *)
SettledCount(h, c) == h.streaks[c] = 0 /\ (h.counted[c] = 0 \/ h.wiped[c])

OthersKeep(g, h, c) ==
    \A d \in Clients \ {c} :
        h.streaks[d] = g.streaks[d] /\ h.counted[d] = g.counted[d] /\ h.wiped[d] = g.wiped[d]

CountsMove(g, t, c) ==
    LET h == t.engine
    IN  /\ OthersKeep(g, h, c)
        /\ \/ h.streaks[c] = g.streaks[c] /\ h.counted[c] = g.counted[c] /\ h.wiped[c] = g.wiped[c]
           \/ /\ h.streaks[c] = g.streaks[c] + 1 /\ h.counted[c] = g.counted[c] + 1
              /\ h.wiped[c] = g.wiped[c]
           \/ SettledCount(h, c)
           \/ h.streaks[c] > 0 /\ h.counted[c] = 0 /\ t.stop = "recovered"

GoodTurn(t, rows) == GoodMarks(t.engine, rows) /\ t.stop \in Stops \cup {"done"}

Rows == Seq([contour: Contours, status: Statuses])

LEMMA EventFields ==
  ASSUME NEW e \in Event
  PROVE  e.client \in Clients /\ e.contour \in Contours /\ e.status \in Statuses
  BY DEF Event

LEMMA KeysOfEvents ==
  ASSUME NEW e \in Event
  PROVE  {<<"rate", e.contour>>, <<"streak", e.client>>, <<"recovered", "-">>, <<"long", "-">>,
          <<"refused", e.contour>>, <<"disk_low", "-">>} \subseteq Keys
  BY EventFields DEF Keys, Kinds

LEMMA RateTurn ==
  ASSUME clock \in Nat, NEW rows \in Rows, NEW g, GoodMarks(g, rows), NEW e \in Event
  PROVE  LET t == CheckErrorRate(g, e, rows)
         IN  GoodTurn(t, rows) /\ SameCounts(g, t.engine) /\ t.stop \in {"rate", "done"}
  <1> DEFINE key == <<"rate", e.contour>>
             rest == Turn(g, "done")
  <1>1. GoodMarks(rest.engine, rows) /\ SameCounts(g, rest.engine) /\ rest.stop = "done"
    BY DEF Turn, SameCounts
  <1>2. CASE TooManyErrors(rows, e.contour)
    <2>1. HasError(rows, e.contour)
      BY <1>2, TooManyHasError DEF Rows
    <2>2. key \in Keys /\ key[1] = "rate" /\ key[2] = e.contour
      BY KeysOfEvents
    <2>3. CheckErrorRate(g, e, rows) = Fire(g, key, "rate", rest)
      BY <1>2 DEF CheckErrorRate
    <2> HIDE DEF key, rest
    <2>4. LET t == Fire(g, key, "rate", rest)
          IN  \/ t = rest
              \/ GoodMarks(t.engine, rows) /\ SameCounts(g, t.engine) /\ t.stop = "rate"
      BY <2>1, <2>2, FireIsGood
    <2> QED BY <1>1, <2>3, <2>4 DEF GoodTurn, Stops
  <1>3. CASE ~TooManyErrors(rows, e.contour)
    BY <1>1, <1>3 DEF CheckErrorRate, GoodTurn
  <1> QED BY <1>2, <1>3

(* Counters may change as they like: the marks stay good.                  *)
LEMMA NewCounters ==
  ASSUME NEW rows, NEW g, GoodMarks(g, rows), NEW h \in Memory,
         h.lastSent = g.lastSent, h.told = g.told, h.tooSoon = g.tooSoon
  PROVE  GoodMarks(h, rows)
  BY DEF GoodMarks

(* Changes of the counters leave the marks good.                           *)
LEMMA CountsMemory ==
  ASSUME NEW rows, NEW g, GoodMarks(g, rows), NEW c \in Clients
  PROVE  LET h == Counts(g, c)
         IN  /\ GoodMarks(h, rows) /\ OthersKeep(g, h, c)
             /\ h.streaks[c] = g.streaks[c] + 1 /\ h.counted[c] = g.counted[c] + 1
             /\ h.wiped[c] = g.wiped[c]
  <1>1. g \in Memory
    BY DEF GoodMarks
  <1>2. /\ g.streaks \in [Clients -> Nat] /\ g.counted \in [Clients -> Nat]
        /\ g.wiped \in [Clients -> BOOLEAN] /\ g.hadErrors \in [Clients -> BOOLEAN]
    BY <1>1 DEF Memory
  <1> DEFINE h == Counts(g, c)
             a == [g.streaks EXCEPT ![c] = @ + 1]
             b == [g.hadErrors EXCEPT ![c] = TRUE]
             n == [g.counted EXCEPT ![c] = @ + 1]
             w == g.wiped
  <1>3. h = [g EXCEPT !.streaks = a, !.hadErrors = b, !.counted = n, !.wiped = w]
    BY <1>1 DEF Counts, Memory
  <1>4. a \in [Clients -> Nat] /\ b \in [Clients -> BOOLEAN] /\ n \in [Clients -> Nat]
        /\ w \in [Clients -> BOOLEAN]
    BY <1>2
  <1>5. /\ a[c] = g.streaks[c] + 1 /\ n[c] = g.counted[c] + 1
        /\ \A d \in Clients \ {c} : a[d] = g.streaks[d] /\ n[d] = g.counted[d]
    BY <1>2
  <1> HIDE DEF h, a, b, n, w
  <1>6. GoodMarks(h, rows) /\ h.streaks = a /\ h.counted = n /\ h.wiped = w
    <2>1. /\ h \in Memory /\ h.streaks = a /\ h.counted = n /\ h.wiped = w
          /\ h.lastSent = g.lastSent /\ h.told = g.told /\ h.tooSoon = g.tooSoon
      BY <1>1, <1>3, <1>4 DEF Memory
    <2> QED BY <2>1, NewCounters
  <1> QED BY <1>5, <1>6 DEF OthersKeep, h, a, b, n, w

LEMMA ClearedMemory ==
  ASSUME NEW rows, NEW g, GoodMarks(g, rows), NEW c \in Clients
  PROVE  LET h == Cleared(g, c)
         IN  GoodMarks(h, rows) /\ OthersKeep(g, h, c) /\ SettledCount(h, c)
  <1>1. g \in Memory
    BY DEF GoodMarks
  <1>2. /\ g.streaks \in [Clients -> Nat] /\ g.counted \in [Clients -> Nat]
        /\ g.wiped \in [Clients -> BOOLEAN] /\ g.hadErrors \in [Clients -> BOOLEAN]
    BY <1>1 DEF Memory
  <1> DEFINE h == Cleared(g, c)
             a == [g.streaks EXCEPT ![c] = 0]
             b == [g.hadErrors EXCEPT ![c] = FALSE]
             n == g.counted
             w == [g.wiped EXCEPT ![c] = @ \/ g.counted[c] > 0]
  <1>3. h = [g EXCEPT !.streaks = a, !.hadErrors = b, !.counted = n, !.wiped = w]
    BY <1>1 DEF Cleared, Memory
  <1>4. a \in [Clients -> Nat] /\ b \in [Clients -> BOOLEAN] /\ n \in [Clients -> Nat]
        /\ w \in [Clients -> BOOLEAN]
    BY <1>2
  <1>5. /\ a[c] = 0 /\ (n[c] = 0 \/ w[c])
        /\ \A d \in Clients \ {c} : a[d] = g.streaks[d] /\ w[d] = g.wiped[d]
    <2>1. a[c] = 0 /\ \A d \in Clients \ {c} : a[d] = g.streaks[d] /\ w[d] = g.wiped[d]
      BY <1>2
    <2>2. w[c] = (g.wiped[c] \/ g.counted[c] > 0)
      BY <1>2, Zenon
    <2>3. n[c] = 0 \/ n[c] > 0
      BY <1>2
    <2> QED BY <2>1, <2>2, <2>3
  <1> HIDE DEF h, a, b, n, w
  <1>6. GoodMarks(h, rows) /\ h.streaks = a /\ h.counted = n /\ h.wiped = w
    <2>1. /\ h \in Memory /\ h.streaks = a /\ h.counted = n /\ h.wiped = w
          /\ h.lastSent = g.lastSent /\ h.told = g.told /\ h.tooSoon = g.tooSoon
      BY <1>1, <1>3, <1>4 DEF Memory
    <2> QED BY <2>1, NewCounters
  <1> QED BY <1>5, <1>6 DEF OthersKeep, SettledCount, h, a, b, n, w

(* What Success does before anything else.                                 *)
Succeeded(g, c) == [g EXCEPT !.counted[c] = 0, !.wiped[c] = FALSE]

LEMMA SucceededMemory ==
  ASSUME NEW rows, NEW g, GoodMarks(g, rows), NEW c \in Clients
  PROVE  LET h == Succeeded(g, c)
         IN  /\ GoodMarks(h, rows) /\ OthersKeep(g, h, c)
             /\ h.streaks = g.streaks /\ h.counted[c] = 0
  <1>1. g \in Memory
    BY DEF GoodMarks
  <1>2. /\ g.streaks \in [Clients -> Nat] /\ g.counted \in [Clients -> Nat]
        /\ g.wiped \in [Clients -> BOOLEAN] /\ g.hadErrors \in [Clients -> BOOLEAN]
    BY <1>1 DEF Memory
  <1> DEFINE h == Succeeded(g, c)
             a == g.streaks
             b == g.hadErrors
             n == [g.counted EXCEPT ![c] = 0]
             w == [g.wiped EXCEPT ![c] = FALSE]
  <1>3. h = [g EXCEPT !.streaks = a, !.hadErrors = b, !.counted = n, !.wiped = w]
    BY <1>1 DEF Succeeded, Memory
  <1>4. a \in [Clients -> Nat] /\ b \in [Clients -> BOOLEAN] /\ n \in [Clients -> Nat]
        /\ w \in [Clients -> BOOLEAN]
    BY <1>2
  <1>5. /\ n[c] = 0
        /\ \A d \in Clients \ {c} : n[d] = g.counted[d] /\ w[d] = g.wiped[d]
    BY <1>2
  <1> HIDE DEF h, a, b, n, w
  <1>6. GoodMarks(h, rows) /\ h.streaks = a /\ h.counted = n /\ h.wiped = w
    <2>1. /\ h \in Memory /\ h.streaks = a /\ h.counted = n /\ h.wiped = w
          /\ h.lastSent = g.lastSent /\ h.told = g.told /\ h.tooSoon = g.tooSoon
      BY <1>1, <1>3, <1>4 DEF Memory
    <2> QED BY <2>1, NewCounters
  <1> QED BY <1>5, <1>6 DEF OthersKeep, h, a, b, n, w

LEMMA CountTurn ==
  ASSUME clock \in Nat, NEW rows \in Rows, NEW g, GoodMarks(g, rows), NEW e \in Event
  PROVE  LET t == Count(g, e, rows)
         IN  GoodTurn(t, rows) /\ CountsMove(g, t, e.client)
  <1> DEFINE c == e.client
             t == Count(g, e, rows)
  <1>1. c \in Clients /\ e.status \in {"client_aborted", "error", "success"}
    BY EventFields DEF Statuses
  <1>2. {<<"streak", c>>, <<"recovered", "-">>} \subseteq Keys
    BY KeysOfEvents
  <1> HIDE DEF c, t
  <1>3. CASE e.status = "client_aborted"
    <2>1. t = CheckErrorRate(g, e, rows)
      BY <1>3 DEF t, Count
    <2>2. GoodTurn(t, rows) /\ SameCounts(g, t.engine)
      BY <2>1, RateTurn
    <2> QED BY <2>2 DEF CountsMove, OthersKeep, SameCounts, t, c
  <1>4. CASE e.status = "error"
    <2> DEFINE h == Counts(g, c)
               rest == CheckErrorRate(h, e, rows)
               key == <<"streak", c>>
               fired == Fire(h, key, "streak", rest)
    <2>1. /\ GoodMarks(h, rows) /\ OthersKeep(g, h, c)
          /\ h.streaks[c] = g.streaks[c] + 1 /\ h.counted[c] = g.counted[c] + 1
          /\ h.wiped[c] = g.wiped[c]
      BY <1>1, CountsMemory
    <2>2. t = fired \/ t = rest
      BY <1>4 DEF t, c, Count, Streak
    <2>3. key \in Keys /\ key[1] # "rate"
      BY <1>2
    <2> HIDE DEF h, rest, key
    <2>4. GoodTurn(rest, rows) /\ SameCounts(h, rest.engine)
      BY <2>1, RateTurn DEF rest
    <2>5. fired = rest \/ (GoodMarks(fired.engine, rows) /\ SameCounts(h, fired.engine)
                            /\ fired.stop = "streak")
      BY <2>1, <2>3, FireIsGood
    <2> HIDE DEF fired
    <2>6. GoodTurn(t, rows) /\ SameCounts(h, t.engine)
      BY <2>2, <2>4, <2>5 DEF GoodTurn, Stops
    <2>7. CountsMove(g, t, c)
      BY <2>1, <2>6 DEF CountsMove, OthersKeep, SameCounts
    <2> QED BY <2>6, <2>7 DEF t, c
  <1>5. CASE e.status = "success"
    <2> DEFINE h == Succeeded(g, c)
               clear == Cleared(h, c)
               rest == CheckErrorRate(clear, e, rows)
               key == <<"recovered", "-">>
               fired == Fire(h, key, "recovered", rest)
    <2>1. /\ GoodMarks(h, rows) /\ OthersKeep(g, h, c)
          /\ h.streaks = g.streaks /\ h.counted[c] = 0
      BY <1>1, SucceededMemory
    <2>2. \/ t = rest
          \/ t = fired /\ h.streaks[c] >= StreakThreshold
      BY <1>5 DEF t, c, Count, Success, Succeeded
    <2>3. key \in Keys /\ key[1] # "rate" /\ StreakThreshold \in Nat /\ StreakThreshold > 0
      BY <1>2, AlertsAssumption
    <2> HIDE DEF h
    <2>4. GoodMarks(clear, rows) /\ OthersKeep(h, clear, c) /\ SettledCount(clear, c)
      BY <1>1, <2>1, ClearedMemory
    <2> HIDE DEF clear, rest, key
    <2>5. GoodTurn(rest, rows) /\ SameCounts(clear, rest.engine)
      BY <2>4, RateTurn DEF rest
    <2>6. fired = rest \/ (GoodMarks(fired.engine, rows) /\ SameCounts(h, fired.engine)
                            /\ fired.stop = "recovered")
      BY <2>1, <2>3, FireIsGood
    <2> HIDE DEF fired
    <2>7. CASE t = rest
      <3>1. CountsMove(g, t, c)
        BY <2>1, <2>4, <2>5, <2>7 DEF CountsMove, OthersKeep, SameCounts, SettledCount
      <3> QED BY <2>5, <2>7, <3>1 DEF t, c
    <2>8. CASE t # rest
      <3>1. /\ GoodMarks(t.engine, rows) /\ SameCounts(h, t.engine) /\ t.stop = "recovered"
            /\ h.streaks[c] >= StreakThreshold
        BY <2>2, <2>6, <2>8
      <3>2. h.streaks[c] \in Nat
        BY <1>1, <2>1 DEF GoodMarks, Memory
      <3>3. h.streaks[c] > 0
        BY <2>3, <3>1, <3>2
      <3>4. CountsMove(g, t, c)
        BY <2>1, <3>1, <3>3 DEF CountsMove, OthersKeep, SameCounts
      <3>5. GoodTurn(t, rows)
        BY <3>1 DEF GoodTurn, Stops
      <3> QED BY <3>4, <3>5 DEF t, c
    <2> QED BY <2>7, <2>8
  <1> QED BY <1>1, <1>3, <1>4, <1>5

(* The alerts that come before the event is counted count nothing.         *)
LEMMA BeforeCount ==
  ASSUME clock \in Nat, NEW rows \in Rows, NEW g, GoodMarks(g, rows), NEW c,
         NEW key \in Keys, key[1] # "rate", NEW stop \in Stops, NEW rest,
         GoodTurn(rest, rows), CountsMove(g, rest, c)
  PROVE  LET t == Fire(g, key, stop, rest) IN GoodTurn(t, rows) /\ CountsMove(g, t, c)
  <1> DEFINE t == Fire(g, key, stop, rest)
  <1>1. t = rest \/ (GoodMarks(t.engine, rows) /\ SameCounts(g, t.engine) /\ t.stop = stop)
    BY FireIsGood
  <1> HIDE DEF t
  <1>2. CASE t = rest
    BY <1>2 DEF t
  <1>3. CASE t # rest
    <2>1. GoodTurn(t, rows)
      BY <1>1, <1>3 DEF GoodTurn
    <2>2. CountsMove(g, t, c)
      BY <1>1, <1>3 DEF CountsMove, OthersKeep, SameCounts
    <2> QED BY <2>1, <2>2 DEF t
  <1> QED BY <1>2, <1>3

LEMMA AfterRefusedTurn ==
  ASSUME clock \in Nat, NEW rows \in Rows, NEW g, GoodMarks(g, rows), NEW e \in Event
  PROVE  LET t == AfterRefused(g, e, rows)
         IN  GoodTurn(t, rows) /\ CountsMove(g, t, e.client)
  <1> DEFINE rest == Count(g, e, rows)
             key == <<"long", "-">>
             t == AfterRefused(g, e, rows)
  <1>1. GoodTurn(rest, rows) /\ CountsMove(g, rest, e.client)
    BY CountTurn
  <1>2. key \in Keys /\ key[1] # "rate" /\ "long" \in Stops
    BY KeysOfEvents DEF Stops
  <1>3. t = rest \/ t = Fire(g, key, "long", rest)
    BY DEF AfterRefused
  <1> HIDE DEF rest, key, t
  <1>4. LET f == Fire(g, key, "long", rest) IN GoodTurn(f, rows) /\ CountsMove(g, f, e.client)
    BY <1>1, <1>2, BeforeCount
  <1>5. GoodTurn(t, rows) /\ CountsMove(g, t, e.client)
    BY <1>1, <1>3, <1>4
  <1> QED BY <1>5 DEF t

LEMMA OnEventTurn ==
  ASSUME clock \in Nat, NEW rows \in Rows, NEW g, GoodMarks(g, rows), NEW e \in Event
  PROVE  LET t == OnEvent(g, e, rows)
         IN  GoodTurn(t, rows) /\ CountsMove(g, t, e.client)
  <1> DEFINE rest == AfterRefused(g, e, rows)
             key == <<"refused", e.contour>>
             t == OnEvent(g, e, rows)
  <1>1. GoodTurn(rest, rows) /\ CountsMove(g, rest, e.client)
    BY AfterRefusedTurn
  <1>2. key \in Keys /\ key[1] # "rate" /\ "refused" \in Stops
    BY KeysOfEvents DEF Stops
  <1>3. t = rest \/ t = Fire(g, key, "refused", rest)
    BY DEF OnEvent
  <1> HIDE DEF rest, key, t
  <1>4. LET f == Fire(g, key, "refused", rest) IN GoodTurn(f, rows) /\ CountsMove(g, f, e.client)
    BY <1>1, <1>2, BeforeCount
  <1>5. GoodTurn(t, rows) /\ CountsMove(g, t, e.client)
    BY <1>1, <1>3, <1>4
  <1> QED BY <1>5 DEF t

(* After the message of recovery the count is settled, whatever came in    *)
(* between.                                                                *)
LEMMA ResumedTurn ==
  ASSUME clock \in Nat, NEW rows \in Rows, NEW g, GoodMarks(g, rows), NEW e \in Event,
         NEW stop \in Stops
  PROVE  LET t == Resumed(g, e, stop, rows)
         IN  /\ GoodTurn(t, rows) /\ CountsMove(g, t, e.client)
             /\ stop = "recovered" => SettledCount(t.engine, e.client)
  <1> DEFINE c == e.client
             t == Resumed(g, e, stop, rows)
             clear == Cleared(g, c)
  <1>1. c \in Clients /\ stop \in {"refused", "long", "streak", "recovered", "rate"}
    BY EventFields DEF Stops
  <1>2. CASE stop \in {"refused", "long"}
    <2>1. t = AfterRefused(g, e, rows) \/ t = Count(g, e, rows)
      BY <1>2 DEF Resumed
    <2> QED BY <1>2, <2>1, AfterRefusedTurn, CountTurn
  <1>3. CASE stop = "streak"
    <2>1. t = CheckErrorRate(g, e, rows)
      BY <1>3 DEF Resumed
    <2> HIDE DEF t
    <2>2. GoodTurn(t, rows) /\ SameCounts(g, t.engine)
      BY <2>1, RateTurn
    <2>3. CountsMove(g, t, c)
      BY <2>2 DEF CountsMove, OthersKeep, SameCounts
    <2> QED BY <1>3, <2>2, <2>3 DEF t
  <1>4. CASE stop = "recovered"
    <2>1. t = CheckErrorRate(clear, e, rows)
      BY <1>4 DEF Resumed
    <2>2. GoodMarks(clear, rows) /\ OthersKeep(g, clear, c) /\ SettledCount(clear, c)
      BY <1>1, ClearedMemory
    <2> HIDE DEF t, clear, c
    <2>3. GoodTurn(t, rows) /\ SameCounts(clear, t.engine)
      BY <2>1, <2>2, RateTurn
    <2>4. CountsMove(g, t, c) /\ SettledCount(t.engine, c)
      BY <2>2, <2>3 DEF CountsMove, OthersKeep, SameCounts, SettledCount
    <2> QED BY <2>3, <2>4 DEF t, c
  <1>5. CASE stop = "rate"
    <2>1. t = Turn(g, "done")
      BY <1>5 DEF Resumed
    <2>2. t.engine = g /\ t.stop = "done"
      BY <2>1 DEF Turn
    <2> HIDE DEF t
    <2>3. GoodTurn(t, rows) /\ CountsMove(g, t, c)
      BY <2>2 DEF GoodTurn, CountsMove, OthersKeep
    <2> QED BY <1>5, <2>3 DEF t
  <1> QED BY <1>1, <1>2, <1>3, <1>4, <1>5

(* What was told about a contour's errors stays true as rows are added.    *)
LEMMA MoreRows ==
  ASSUME NEW rows \in Rows, NEW row \in [contour: Contours, status: Statuses],
         NEW g, GoodMarks(g, rows)
  PROVE  Append(rows, row) \in Rows /\ GoodMarks(g, Append(rows, row))
  <1> DEFINE more == Append(rows, row)
  <1>1. more \in Rows /\ Len(more) = Len(rows) + 1 /\ \A i \in 1..Len(rows) : more[i] = rows[i]
    BY AppendProperties DEF Rows
  <1>2. DOMAIN rows = 1..Len(rows) /\ DOMAIN more = 1..Len(more) /\ Len(rows) \in Nat
    BY <1>1, LenProperties DEF Rows
  <1> HIDE DEF more
  <1>3. \A c : HasError(rows, c) => HasError(more, c)
    BY <1>1, <1>2 DEF HasError
  <1>4. GoodMarks(g, more)
    BY <1>3 DEF GoodMarks
  <1> QED BY <1>1, <1>4 DEF more

(* A turn for the event of a slot keeps every client's count explained: a  *)
(* message of recovery that was awaited has settled the count of its       *)
(* client, and one that is awaited now explains it.                        *)
LEMMA CountsStay ==
  ASSUME AlertsInv, NEW s \in Slots, NEW e \in Event, NEW t, GoodMarks(t.engine, recorded'),
         t.stop \in Stops \cup {"done"}, CountsMove(engine, t, e.client),
         waiting' = [waiting EXCEPT ![s] = Waiting(t, e)], engine' = t.engine,
         waiting[s].stop = "recovered" =>
             waiting[s].event.client = e.client /\ SettledCount(t.engine, e.client)
  PROVE  /\ waiting' \in [Slots -> {NoEvent} \cup [stop: Stops, event: Event]]
         /\ \A c \in Clients : CountOf(engine, c)'
  <1> DEFINE h == t.engine
             c == e.client
  <1>1. c \in Clients
    BY EventFields
  <1>2. waiting \in [Slots -> {NoEvent} \cup [stop: Stops, event: Event]]
    BY DEF AlertsInv
  <1>3. Waiting(t, e) \in {NoEvent} \cup [stop: Stops, event: Event]
    BY DEF Waiting
  <1>4. /\ waiting' \in [Slots -> {NoEvent} \cup [stop: Stops, event: Event]]
        /\ waiting'[s] = Waiting(t, e) /\ \A o \in Slots \ {s} : waiting'[o] = waiting[o]
    BY <1>2, <1>3
  <1>5. /\ engine.streaks \in [Clients -> Nat] /\ engine.counted \in [Clients -> Nat]
        /\ engine.wiped \in [Clients -> BOOLEAN]
        /\ h.streaks \in [Clients -> Nat] /\ h.counted \in [Clients -> Nat]
        /\ h.wiped \in [Clients -> BOOLEAN]
    BY DEF AlertsInv, GoodMarks, Memory
  <1>6. t.stop = "recovered" => Recovering(c)'
    BY <1>4 DEF Waiting, Recovering
  <1>7. ASSUME NEW d \in Clients, Recovering(d), ~SettledCount(h, d) PROVE Recovering(d)'
    <2>1. PICK o \in Slots : waiting[o].stop = "recovered" /\ waiting[o].event.client = d
      BY <1>7 DEF Recovering
    <2>2. o # s
      BY <1>7, <2>1
    <2> QED BY <1>4, <2>1, <2>2 DEF Recovering
  <1>8. ASSUME NEW d \in Clients PROVE CountOf(engine, d)'
    <2>1. CountOf(engine, d)
      BY DEF AlertsInv
    <2>2. h.streaks[d] \in Nat /\ h.counted[d] \in Nat /\ h.wiped[d] \in BOOLEAN
          /\ engine.streaks[d] \in Nat /\ engine.counted[d] \in Nat
      BY <1>5
    <2>3. CASE SettledCount(h, d)
      BY <2>2, <2>3 DEF SettledCount, CountOf
    <2>4. CASE ~SettledCount(h, d)
      <3>1. \/ h.streaks[d] = engine.streaks[d] /\ h.counted[d] = engine.counted[d]
               /\ h.wiped[d] = engine.wiped[d]
            \/ h.streaks[d] = engine.streaks[d] + 1 /\ h.counted[d] = engine.counted[d] + 1
               /\ h.wiped[d] = engine.wiped[d]
            \/ h.streaks[d] > 0 /\ h.counted[d] = 0 /\ d = c /\ t.stop = "recovered"
        BY <2>4 DEF CountsMove, OthersKeep
      <3>2. Recovering(d) => Recovering(d)'
        BY <1>7, <2>4
      <3> HIDE DEF h, c
      <3>3. CASE h.streaks[d] > 0 /\ h.counted[d] = 0 /\ d = c /\ t.stop = "recovered"
        <4>1. Recovering(d)' /\ h.streaks[d] > h.counted[d]
          BY <1>6, <3>3
        <4> QED BY <4>1 DEF CountOf, h
      <3>4. \/ h.streaks[d] = h.counted[d]
            \/ h.wiped[d] /\ h.streaks[d] < h.counted[d]
            \/ Recovering(d)' /\ h.streaks[d] > h.counted[d]
            \/ h.streaks[d] > 0 /\ h.counted[d] = 0 /\ d = c /\ t.stop = "recovered"
        BY <2>1, <2>2, <3>1, <3>2 DEF CountOf
      <3> QED BY <3>3, <3>4 DEF CountOf, h
    <2> QED BY <2>3, <2>4
  <1> QED BY <1>4, <1>8

LEMMA AlertsStart == AlertsInit => AlertsInv
  <1> SUFFICES ASSUME AlertsInit PROVE AlertsInv
    OBVIOUS
  <1>1. clock = 0 /\ events = 0 /\ recorded = <<>> /\ waiting = [s \in Slots |-> NoEvent]
        /\ engine = FreshEngine /\ MaxClock \in Nat /\ MaxEvents \in Nat
    BY AlertsAssumption DEF AlertsInit
  <1>2. <<>> \in Marks /\ DOMAIN <<>> = {}
    <2>1. <<>> \in [{} -> Nat]
      OBVIOUS
    <2> QED BY <2>1 DEF Marks
  <1>3. engine \in Memory /\ engine.lastSent = <<>> /\ engine.told = <<>> /\ engine.tooSoon = FALSE
        /\ engine.streaks = [c \in Clients |-> 0] /\ engine.counted = [c \in Clients |-> 0]
    BY <1>1, <1>2 DEF FreshEngine, Memory
  <1>4. GoodMarks(engine, recorded)
    BY <1>2, <1>3 DEF GoodMarks
  <1>5. \A c \in Clients : CountOf(engine, c)
    BY <1>3 DEF CountOf
  <1> QED BY <1>1, <1>4, <1>5 DEF AlertsInv

LEMMA RecordRequestStep ==
  ASSUME AlertsInv, NEW s \in Slots, NEW e \in Event, RecordRequest(s, e)
  PROVE  AlertsInv'
  <1> DEFINE row == [contour |-> e.contour, status |-> e.status]
             rows == Append(recorded, row)
             t == OnEvent(engine, e, rows)
  <1>1. recorded \in Rows /\ GoodMarks(engine, recorded) /\ clock \in Nat
    BY AlertsAssumption DEF AlertsInv, Rows
  <1>2. row \in [contour: Contours, status: Statuses]
    BY EventFields
  <1>3. /\ recorded' = rows /\ engine' = t.engine /\ waiting[s] = NoEvent
        /\ waiting' = [waiting EXCEPT ![s] = Waiting(t, e)]
        /\ events' = events + 1 /\ events < MaxEvents /\ clock' = clock
    BY DEF RecordRequest
  <1> HIDE DEF row
  <1>4. rows \in Rows /\ GoodMarks(engine, rows)
    BY <1>1, <1>2, MoreRows
  <1> HIDE DEF rows
  <1>5. GoodTurn(t, rows) /\ CountsMove(engine, t, e.client)
    BY <1>1, <1>4, OnEventTurn
  <1> HIDE DEF t
  <1>6. waiting[s].stop # "recovered"
    BY <1>3 DEF NoEvent
  <1>7. GoodMarks(t.engine, recorded') /\ t.stop \in Stops \cup {"done"}
    BY <1>3, <1>5 DEF GoodTurn
  <1>8. /\ waiting' \in [Slots -> {NoEvent} \cup [stop: Stops, event: Event]]
        /\ \A c \in Clients : CountOf(engine, c)'
    BY <1>3, <1>5, <1>6, <1>7, CountsStay
  <1>9. clock' \in 0..MaxClock /\ events' \in 0..MaxEvents
    BY <1>3, AlertsAssumption DEF AlertsInv
  <1>10. GoodMarks(engine, recorded)'
    BY <1>3, <1>7 DEF GoodMarks, HasError
  <1> QED BY <1>3, <1>4, <1>8, <1>9, <1>10 DEF AlertsInv, Rows

LEMMA MessageDoneStep ==
  ASSUME AlertsInv, NEW s \in Slots, MessageDone(s)
  PROVE  AlertsInv'
  <1> DEFINE e == waiting[s].event
             stop == waiting[s].stop
             t == Resumed(engine, e, stop, recorded)
  <1>1. recorded \in Rows /\ GoodMarks(engine, recorded) /\ clock \in Nat
    BY AlertsAssumption DEF AlertsInv, Rows
  <1>2. e \in Event /\ stop \in Stops
    BY DEF AlertsInv, MessageDone
  <1>3. /\ engine' = t.engine /\ waiting' = [waiting EXCEPT ![s] = Waiting(t, e)]
        /\ events' = events /\ clock' = clock /\ recorded' = recorded
    BY DEF MessageDone, AlertsInv
  <1>4. /\ GoodTurn(t, recorded) /\ CountsMove(engine, t, e.client)
        /\ stop = "recovered" => SettledCount(t.engine, e.client)
    <2> HIDE DEF e, stop
    <2> QED BY <1>1, <1>2, ResumedTurn
  <1> HIDE DEF t
  <1>5. GoodMarks(t.engine, recorded') /\ t.stop \in Stops \cup {"done"}
    BY <1>3, <1>4 DEF GoodTurn
  <1>6. waiting[s].stop = "recovered" =>
            waiting[s].event.client = e.client /\ SettledCount(t.engine, e.client)
    BY <1>4
  <1> HIDE DEF e, stop
  <1>7. /\ waiting' \in [Slots -> {NoEvent} \cup [stop: Stops, event: Event]]
        /\ \A c \in Clients : CountOf(engine, c)'
    BY <1>2, <1>3, <1>4, <1>5, <1>6, CountsStay
  <1>8. GoodMarks(engine, recorded)'
    BY <1>3, <1>5 DEF GoodMarks, HasError
  <1> QED BY <1>3, <1>7, <1>8 DEF AlertsInv

LEMMA OnDiskLowStep ==
  ASSUME AlertsInv, OnDiskLow
  PROVE  AlertsInv'
  <1> DEFINE key == <<"disk_low", "-">>
             rest == Turn(engine, "done")
             t == Fire(engine, key, "done", rest)
  <1>1. GoodMarks(engine, recorded) /\ clock \in Nat
    BY AlertsAssumption DEF AlertsInv
  <1>2. key \in Keys /\ key[1] # "rate"
    BY DEF Keys, Kinds
  <1>3. engine' = t.engine /\ rest.engine = engine
        /\ UNCHANGED <<clock, recorded, waiting, events>>
    BY DEF OnDiskLow, Fired, Turn
  <1> HIDE DEF key, rest
  <1>4. \/ t = rest
        \/ GoodMarks(t.engine, recorded) /\ SameCounts(engine, t.engine) /\ t.stop = "done"
    BY <1>1, <1>2, FireIsGood
  <1> HIDE DEF t
  <1>5. GoodMarks(t.engine, recorded) /\ SameCounts(engine, t.engine)
    BY <1>1, <1>3, <1>4 DEF SameCounts
  <1>6. GoodMarks(engine, recorded)'
    BY <1>3, <1>5 DEF GoodMarks, HasError
  <1>7. \A c \in Clients : CountOf(engine, c)'
    BY <1>3, <1>5 DEF AlertsInv, CountOf, SameCounts, Recovering
  <1> QED BY <1>3, <1>6, <1>7 DEF AlertsInv

LEMMA AlertsStep == AlertsInv /\ [AlertsNext]_alertVars => AlertsInv'
  <1> SUFFICES ASSUME AlertsInv, [AlertsNext]_alertVars PROVE AlertsInv'
    OBVIOUS
  <1>1. CASE TimePasses
    <2>1. clock' = clock + 1 /\ clock < MaxClock /\ clock \in Nat /\ MaxClock \in Nat
          /\ UNCHANGED <<recorded, engine, waiting, events>>
      BY <1>1, AlertsAssumption DEF TimePasses, AlertsInv
    <2>2. \A k \in DOMAIN engine.lastSent : engine.lastSent[k] \in Nat
      BY DEF AlertsInv, GoodMarks, Memory, Marks
    <2>3. GoodMarks(engine, recorded)'
      BY <2>1, <2>2 DEF AlertsInv, GoodMarks, HasError
    <2> QED BY <2>1, <2>3 DEF AlertsInv, CountOf, Recovering
  <1>2. CASE UNCHANGED alertVars
    BY <1>2 DEF alertVars, AlertsInv, GoodMarks, HasError, CountOf, Recovering
  <1> QED BY <1>1, <1>2, RecordRequestStep, MessageDoneStep, OnDiskLowStep DEF AlertsNext

LEMMA AlertsProved == AlertsInv => AlertsSound /\ CooldownKept
  <1> SUFFICES ASSUME AlertsInv PROVE AlertsSound /\ CooldownKept
    OBVIOUS
  <1>1. /\ engine \in Memory /\ engine.lastSent \in Marks /\ ~engine.tooSoon
        /\ \A k \in DOMAIN engine.lastSent : engine.lastSent[k] <= clock
        /\ \A c \in Contours : <<"rate", c>> \in DOMAIN engine.lastSent => HasError(recorded, c)
    BY DEF AlertsInv, GoodMarks, Memory
  <1>2. \A k \in DOMAIN engine.lastSent : k \in Keys /\ engine.lastSent[k] \in 0..clock
    <2>1. PICK ks \in SUBSET Keys : engine.lastSent \in [ks -> Nat]
      BY <1>1 DEF Marks
    <2> QED BY <1>1, <2>1, AlertsAssumption DEF AlertsInv
  <1>3. AlertsTypeOK
    BY <1>1, <1>2 DEF AlertsTypeOK, AlertsInv, Memory
  <1>4. StreaksAreOwn
    BY DEF StreaksAreOwn, AlertsInv, CountOf, Recovering
  <1>5. RateOfItsOwn
    BY <1>1 DEF RateOfItsOwn, HasError
  <1> QED BY <1>1, <1>3, <1>4, <1>5 DEF AlertsSound, CooldownKept

(* Whatever messages are awaited while other events come: what the engine  *)
(* has counted of a client are its own errors, and a message about the     *)
(* error rate of a contour follows an error of that contour.               *)
THEOREM AlertsKept == AlertsSpec => []AlertsSound
  BY AlertsStart, AlertsStep, AlertsProved, PTL DEF AlertsSpec

(* However many events find a reason at once, two messages about the same  *)
(* thing are at least the cooldown of their kind apart: the mark is set    *)
(* before the message is awaited.                                          *)
THEOREM CooldownsKept == AlertsSpec => []CooldownKept
  BY AlertsStart, AlertsStep, AlertsProved, PTL DEF AlertsSpec
=============================================================================

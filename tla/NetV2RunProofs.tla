--------------------------- MODULE NetV2RunProofs ---------------------------
(***************************************************************************)
(* The bitstream runner, for any number of runs on one host and any        *)
(* services: no service is forgotten (NothingLeftDown), and a run that met *)
(* no other captures what its own bitstream prints (CapturesOwnBitstream). *)
(***************************************************************************)
EXTENDS NetV2Run, SequenceTheorems, TLAPS

-----------------------------------------------------------------------------

\* The services are what stands at the places of Services.
LEMMA Places ==
  /\ Len(Services) \in Nat \ {0}
  /\ \A i \in 1..Len(Services) : Services[i] \in Names
  /\ \A s \in Names : \E i \in 1..Len(Services) : Services[i] = s
<1>1. Services \in Seq(ToSet(Services)) /\ Services # <<>>
  BY ServicesAssumption
<1>2. Len(Services) \in Nat \ {0} /\ DOMAIN Services = 1..Len(Services)
  BY <1>1, LenProperties, EmptySeq
<1> QED
  BY <1>2 DEF Names, ToSet

\* The three files, in their order.
LEMMA FileFacts ==
  /\ Len(Files) = 3 /\ Files[1] = "bit" /\ Files[2] = "cfg" /\ Files[3] = "script"
  /\ ToSet(Files) = {"bit", "cfg", "script"}
<1>1. DOMAIN Files = 1..3
  BY DEF Files
<1> QED
  BY <1>1 DEF Files, ToSet

\* Only services that run are restarted.
LEMMA Parsed ==
  ASSUME NEW running, NEW text \in Answers(running)
  PROVE  parse_probe(text) \subseteq running
<1>1. text \subseteq (running \X {"active", "activating"})
                      \cup ((Names \ running) \X {"inactive"}) \cup Noise
  BY DEF Answers
<1>2. ASSUME NEW m \in text, Len(m) = 2, m[2] = "active" PROVE m[1] \in running
  BY <1>1, <1>2, NoiseAssumption
<1> QED
  BY <1>2 DEF parse_probe

-----------------------------------------------------------------------------

\* The types hold before the first step.
LEMMA TypeInit == Init => TypeOK
  BY Places, FileFacts DEF Init, TypeOK

\* What every action keeps: one run goes on, and each register stays in its set.
LEMMA TypeNext == TypeOK /\ [Next]_vars => TypeOK'
<1> SUFFICES ASSUME TypeOK, [Next]_vars PROVE TypeOK'
  OBVIOUS
<1> USE Places, FileFacts DEF TypeOK, Goto, Reset, End, Busy, serviceVars, boardVars
<1>0. CASE UNCHANGED vars
  BY <1>0 DEF vars
<1>1. ASSUME NEW r \in Runs, NEW matches \in BOOLEAN, NEW force \in BOOLEAN, Start(r, matches, force)
       PROVE  TypeOK'
  BY <1>1 DEF Start
<1>2. ASSUME NEW r \in Runs, NEW answered \in BOOLEAN, NEW recent \in BOOLEAN, NEW force \in BOOLEAN, CheckSession(r, answered, recent, force)
       PROVE  TypeOK'
  <2>1. overlapped' \subseteq Runs /\ \E l \in {"idle", "upload"} : pc' = [pc EXCEPT ![r] = l]
    BY <1>2 DEF CheckSession
  <2> QED
    BY <1>2, <2>1 DEF CheckSession
<1>3. ASSUME NEW r \in Runs, UploadBegin(r)
       PROVE  TypeOK'
  BY <1>3 DEF UploadBegin
<1>4. ASSUME NEW r \in Runs, UploadEnd(r)
       PROVE  TypeOK'
  <2>1. \/ \E c \in Runs \cup {"part"} : file' = [file EXCEPT ![Files[pos[r]]] = c]
        \/ UNCHANGED file
    <3>1. {r} \cup (IF r \in overlapped THEN {"part"} ELSE {}) \subseteq Runs \cup {"part"}
      OBVIOUS
    <3> QED
      BY <1>4, <3>1 DEF UploadEnd
  <2>2. file' \in [ToSet(Files) -> Runs \cup {"part", none}]
    BY <2>1
  <2>3. pos[r] \in 1..3 /\ UNCHANGED <<was_active, fpga, capture, up, first_up, overlapped>>
    BY <1>4 DEF UploadEnd
  <2>4. CASE upload_failed(r)
    BY <2>2, <2>3, <2>4 DEF upload_failed
  <2>5. CASE next_upload(r)
    <3>1. CASE pos[r] = 3
      BY <2>2, <2>3, <2>5, <3>1 DEF next_upload
    <3>2. CASE pos[r] # 3
      <4>1. pos[r] + 1 \in 1..3 /\ pc' = [pc EXCEPT ![r] = "upload"]
            /\ pos' = [pos EXCEPT ![r] = pos[r] + 1]
        BY <2>3, <2>5, <3>2 DEF next_upload
      <4> QED
        BY <2>2, <2>3, <4>1
    <3> QED
      BY <3>1, <3>2
  <2> QED
    BY <1>4, <2>4, <2>5 DEF UploadEnd
<1>5. ASSUME NEW r \in Runs, UploadFails(r)
       PROVE  TypeOK'
  BY <1>5 DEF UploadFails, upload_failed
<1>6. ASSUME NEW r \in Runs, Probe(r)
       PROVE  TypeOK'
  <2>1. PICK text \in Answers(up) : was_active' = [was_active EXCEPT ![r] = parse_probe(text)]
    BY <1>6 DEF Probe
  <2>2. parse_probe(text) \subseteq first_up
    BY <2>1, Parsed
  <2> QED
    BY <1>6, <2>1, <2>2 DEF Probe
<1>7. ASSUME NEW r \in Runs, NEW obeyed \in BOOLEAN, Stop(r, obeyed)
       PROVE  TypeOK'
  BY <1>7 DEF Stop, Down
<1>8. ASSUME NEW r \in Runs, NEW obeyed \in BOOLEAN, Restore(r, obeyed)
       PROVE  TypeOK'
  BY <1>8 DEF Restore, Up, Missed, restore_commands
<1>9. ASSUME NEW r \in Runs, NEW obeyed \in BOOLEAN, Interrupt(r, obeyed)
       PROVE  TypeOK'
  <2>1. up' \subseteq first_up /\ UNCHANGED <<file, fpga, first_up, overlapped>>
    BY <1>9 DEF Interrupt, Down, Missed
  <2>2. CASE Restoring(r) /\ UNCHANGED <<was_active, capture>>
    BY <2>1, <2>2 DEF Restoring
  <2>3. CASE End(r, "idle")
    BY <2>1, <2>3
  <2> QED
    BY <1>9, <2>2, <2>3 DEF Interrupt
<1>10. ASSUME NEW r \in Runs, Load(r)
       PROVE  TypeOK'
  <2>1. fpga' \in Runs \cup {"part", none}
    BY <1>10 DEF Load
  <2>2. UNCHANGED <<was_active, capture, file, up, first_up, overlapped>>
    BY <1>10 DEF Load, load_failed
  <2>3. CASE pc' = [pc EXCEPT ![r] = "capture"] /\ UNCHANGED pos
    <3>1. pc[r] = "load"
      BY <1>10 DEF Load
    <3> QED
      BY <2>1, <2>2, <2>3, <3>1
  <2>4. CASE Restoring(r)
    BY <2>1, <2>2, <2>4 DEF Restoring
  <2> QED
    BY <1>10, <2>3, <2>4 DEF Load, load_failed
<1>11. ASSUME NEW r \in Runs, Capture(r)
       PROVE  TypeOK'
  BY <1>11 DEF Capture, Restoring
<1>12. ASSUME NEW r \in Runs, Finish(r)
       PROVE  TypeOK'
  BY <1>12 DEF Finish
<1> QED
  BY <1>0, <1>1, <1>2, <1>3, <1>4, <1>5, <1>6, <1>7, <1>8, <1>9, <1>10, <1>11, <1>12 DEF Next

(* Every register holds what its uses expect, however noisy the probe's    *)
(* answer, for any runs and services (main of host/netv2_run.py).          *)
THEOREM TypeCorrect == Spec => []TypeOK
  BY TypeInit, TypeNext, PTL DEF Spec

-----------------------------------------------------------------------------

\* The step of one run: what it no longer owes is up or in one of the gaps, what
\* it stops it owes or is in a gap.
LEMMA StillCovered ==
  ASSUME NothingLeftDown, NEW r \in Runs, first_up' = first_up,
         \A q \in Runs \ {r} :
           pc'[q] = pc[q] /\ pos'[q] = pos[q] /\ was_active'[q] = was_active[q],
         \A s \in owed(r) : s \in owed(r)' \cup up' \cup blind' \cup lost',
         \A s \in up \ up' : s \in owed(r)' \cup blind' \cup lost',
         \A s \in blind \cup lost : s \in up' \cup blind' \cup lost'
  PROVE  NothingLeftDown'
<1>1. \A q \in Runs \ {r} : owed(q)' = owed(q)
  BY DEF owed, restore_commands
<1>2. ASSUME NEW s \in first_up' \ up', s \notin blind' \cup lost'
      PROVE  \E q \in Runs : s \in owed(q)'
  <2>1. CASE s \in up
    BY <1>2, <2>1
  <2>2. CASE s \notin up
    <3>1. s \in first_up \ up /\ s \notin blind \cup lost
      BY <1>2, <2>2
    <3>2. s \in UNION {owed(q) : q \in Runs}
      BY <3>1 DEF NothingLeftDown
    <3>3. \E q \in Runs : s \in owed(q)
      BY <3>2
    <3> QED
      BY <1>1, <1>2, <3>3
  <2> QED
    BY <2>1, <2>2
<1>3. \A s \in first_up' \ up' : s \in (UNION {owed(q)' : q \in Runs}) \cup blind' \cup lost'
  <2> SUFFICES ASSUME NEW s \in first_up' \ up', s \notin blind' \cup lost'
               PROVE  s \in UNION {owed(q)' : q \in Runs}
    OBVIOUS
  <2>1. PICK q \in Runs : s \in owed(q)'
    BY <1>2
  <2> QED
    BY <2>1
<1> QED
  BY <1>3 DEF NothingLeftDown

\* A run that begins to restore owes all it heard active.
LEMMA RestoreOwes ==
  ASSUME TypeOK', NEW r \in Runs, pc'[r] = "restore", pos'[r] = 1
  PROVE  owed(r)' = was_active'[r]
<1>1. owed(r)' = {Services[i] : i \in {j \in 1..Len(Services) : Services[j] \in was_active'[r]}}
  BY DEF owed, restore_commands
<1>2. was_active'[r] \subseteq Names
  BY DEF TypeOK
<1> QED
  BY <1>1, <1>2, Places

\* Every step keeps the account of the services.
LEMMA CoveredNext ==
  TypeOK /\ TypeOK' /\ NothingLeftDown /\ [Next]_vars => NothingLeftDown'
<1> SUFFICES ASSUME TypeOK, TypeOK', NothingLeftDown, [Next]_vars PROVE NothingLeftDown'
  OBVIOUS
<1> USE DEF Goto, Reset, End, Busy, serviceVars, boardVars
<1>0. CASE UNCHANGED vars
  <2>1. \A q \in Runs : owed(q)' = owed(q)
    BY <1>0 DEF vars, owed, restore_commands
  <2>2. UNION {owed(q)' : q \in Runs} = UNION {owed(q) : q \in Runs}
    BY <2>1
  <2> QED
    BY <1>0, <2>2 DEF vars, NothingLeftDown
<1>a. /\ pc \in [Runs -> Busy \cup {"idle", "session", "done"}]
      /\ pos \in [Runs -> Nat] /\ was_active \in [Runs -> SUBSET first_up]
  BY DEF TypeOK
<1>1. ASSUME NEW r \in Runs, NEW matches \in BOOLEAN, NEW force \in BOOLEAN,
             Start(r, matches, force)
      PROVE  NothingLeftDown'
  <2>1. owed(r) = {}
    BY <1>1 DEF Start, owed
  <2> QED
    BY <1>1, <1>a, <2>1, StillCovered DEF Start
<1>2. ASSUME NEW r \in Runs, NEW answered \in BOOLEAN, NEW recent \in BOOLEAN,
             NEW force \in BOOLEAN, CheckSession(r, answered, recent, force)
      PROVE  NothingLeftDown'
  <2>1. owed(r) = {}
    BY <1>2 DEF CheckSession, owed
  <2>2. \E l \in {"idle", "upload"} : pc' = [pc EXCEPT ![r] = l]
    BY <1>2 DEF CheckSession
  <2> QED
    BY <1>2, <1>a, <2>1, <2>2, StillCovered DEF CheckSession
<1>3. ASSUME NEW r \in Runs, UploadBegin(r) \/ UploadFails(r) PROVE NothingLeftDown'
  <2>1. owed(r) = {}
    BY <1>3 DEF UploadBegin, UploadFails, owed
  <2> QED
    BY <1>3, <1>a, <2>1, StillCovered DEF UploadBegin, UploadFails, upload_failed
<1>4. ASSUME NEW r \in Runs, UploadEnd(r) PROVE NothingLeftDown'
  <2>1. owed(r) = {}
    BY <1>4 DEF UploadEnd, owed
  <2>2. \A q \in Runs \ {r} : pc'[q] = pc[q] /\ pos'[q] = pos[q]
    BY <1>4, <1>a DEF UploadEnd, next_upload, upload_failed
  <2> QED
    BY <1>4, <2>1, <2>2, StillCovered DEF UploadEnd
<1>5. ASSUME NEW r \in Runs, Probe(r) PROVE NothingLeftDown'
  <2>1. owed(r) = {}
    BY <1>5 DEF Probe, owed
  <2>2. \A q \in Runs \ {r} :
          pc'[q] = pc[q] /\ pos'[q] = pos[q] /\ was_active'[q] = was_active[q]
    BY <1>5, <1>a DEF Probe
  <2> QED
    BY <1>5, <2>1, <2>2, StillCovered DEF Probe
<1>6. ASSUME NEW r \in Runs, NEW obeyed \in BOOLEAN, Stop(r, obeyed) PROVE NothingLeftDown'
  <2>1. /\ pc[r] = "stop" /\ pc'[r] \in {"stop", "load"} /\ UNCHANGED <<was_active, first_up>>
        /\ \A q \in Runs \ {r} : pc'[q] = pc[q] /\ pos'[q] = pos[q]
    BY <1>6, <1>a DEF Stop
  <2>2. owed(r) = was_active[r] /\ owed(r)' = was_active[r]
    BY <2>1 DEF owed
  <2>3. UNCHANGED serviceVars \/ \E s : Down(r, s)
    BY <1>6 DEF Stop
  <2>4. /\ \A s \in up \ up' : s \in was_active[r] \cup blind'
        /\ \A s \in blind \cup lost : s \in blind' \cup lost'
    BY <2>3 DEF Down
  <2> QED
    BY <2>1, <2>2, <2>4, StillCovered
<1>7. ASSUME NEW r \in Runs, NEW obeyed \in BOOLEAN, Restore(r, obeyed)
      PROVE  NothingLeftDown'
  <2>1. PICK i \in restore_commands(r) :
          /\ \A j \in restore_commands(r) : i <= j
          /\ IF obeyed THEN Up(Services[i]) ELSE Missed({Services[i]})
          /\ pos' = [pos EXCEPT ![r] = i + 1]
    BY <1>7 DEF Restore
  <2>2. pc[r] = "restore" /\ UNCHANGED <<pc, was_active, first_up>>
    BY <1>7 DEF Restore
  <2>3. /\ owed(r) = {Services[j] : j \in restore_commands(r)}
        /\ owed(r)' = {Services[j] : j \in restore_commands(r)'}
    BY <2>2 DEF owed
  <2>4. \A j \in restore_commands(r) : j = i \/ j \in restore_commands(r)'
    <3>1. pos'[r] = i + 1 /\ i \in Int /\ \A j \in restore_commands(r) : j \in Int
      BY <1>a, <2>1, Places DEF restore_commands
    <3> QED
      BY <2>1, <2>2, <3>1, Places DEF restore_commands
  <2>5. Services[i] \in up' \cup lost'
    BY <2>1 DEF Up, Missed
  <2>6. /\ \A s \in up : s \in up'
        /\ \A s \in blind \cup lost : s \in up' \cup blind' \cup lost'
    BY <2>1 DEF Up, Missed
  <2>7. \A q \in Runs \ {r} : pos'[q] = pos[q]
    BY <1>a, <2>1
  <2> QED
    BY <2>2, <2>3, <2>4, <2>5, <2>6, <2>7, StillCovered
<1>8. ASSUME NEW r \in Runs, NEW obeyed \in BOOLEAN, Interrupt(r, obeyed)
      PROVE  NothingLeftDown'
  <2>1. CASE pc[r] \in {"stop", "load", "capture"}
    <3>1. /\ pc' = [pc EXCEPT ![r] = "restore"] /\ pos' = [pos EXCEPT ![r] = 1]
          /\ UNCHANGED <<was_active, first_up>>
      BY <1>8, <2>1 DEF Interrupt, Restoring
    <3>2. owed(r) = was_active[r] /\ owed(r)' = was_active[r]
      BY <1>a, <2>1, <3>1, RestoreOwes DEF owed
    <3>3. UNCHANGED serviceVars \/ \E s : Down(r, s)
      BY <1>8, <2>1 DEF Interrupt
    <3>4. /\ \A s \in up \ up' : s \in was_active[r] \cup blind'
          /\ \A s \in blind \cup lost : s \in blind' \cup lost'
      BY <3>3 DEF Down
    <3> QED
      BY <1>a, <3>1, <3>2, <3>4, StillCovered
  <2>2. CASE pc[r] = "restore"
    <3>1. Missed(owed(r)) /\ End(r, "idle") /\ UNCHANGED first_up
      BY <1>8, <2>2 DEF Interrupt
    <3>2. /\ \A s \in owed(r) : s \in up' \cup lost'
          /\ up' = up /\ \A s \in blind \cup lost : s \in blind' \cup lost'
      BY <3>1 DEF Missed
    <3> QED
      BY <1>a, <3>1, <3>2, StillCovered
  <2>3. CASE pc[r] \notin {"stop", "load", "capture", "restore"}
    <3>1. owed(r) = {}
      BY <2>3 DEF owed
    <3>2. End(r, "idle") /\ UNCHANGED <<serviceVars, first_up>>
      BY <1>8, <2>3 DEF Interrupt
    <3> QED
      BY <1>a, <3>1, <3>2, StillCovered
  <2> QED
    BY <2>1, <2>2, <2>3
<1>9. ASSUME NEW r \in Runs, Load(r) \/ Capture(r) PROVE NothingLeftDown'
  <2>1. /\ pc[r] \in {"load", "capture"} /\ UNCHANGED <<was_active, first_up, up, blind, lost>>
        /\ \/ pc' = [pc EXCEPT ![r] = "capture"] /\ UNCHANGED pos
           \/ pc' = [pc EXCEPT ![r] = "restore"] /\ pos' = [pos EXCEPT ![r] = 1]
    BY <1>9 DEF Load, Capture, load_failed, Restoring
  <2>2. owed(r) = was_active[r]
    BY <2>1 DEF owed
  <2>3. owed(r)' = was_active[r]
    <3>1. CASE pc' = [pc EXCEPT ![r] = "capture"]
      BY <1>a, <2>1, <3>1 DEF owed
    <3>2. CASE pc' = [pc EXCEPT ![r] = "restore"] /\ pos' = [pos EXCEPT ![r] = 1]
      BY <1>a, <2>1, <3>2, RestoreOwes
    <3> QED
      BY <2>1, <3>1, <3>2
  <2>4. \A q \in Runs \ {r} : pc'[q] = pc[q] /\ pos'[q] = pos[q]
    BY <1>a, <2>1
  <2> QED
    BY <2>1, <2>2, <2>3, <2>4, StillCovered
<1>10. ASSUME NEW r \in Runs, Finish(r) PROVE NothingLeftDown'
  <2>1. owed(r) = {}
    BY <1>10 DEF Finish, owed
  <2> QED
    BY <1>10, <1>a, <2>1, StillCovered DEF Finish
<1> QED
  BY <1>0, <1>1, <1>2, <1>3, <1>4, <1>5, <1>6, <1>7, <1>8, <1>9, <1>10 DEF Next

(* However many runs overlap, fail and are interrupted: a service that ran *)
(* before the first of them and is down will be restarted by some run, or  *)
(* met one of the two gaps (the finally clause of main).                   *)
THEOREM ServicesAccountedFor == Spec => []NothingLeftDown
<1>1. Init => NothingLeftDown
  BY DEF Init, NothingLeftDown
<1> QED
  BY <1>1, TypeInit, TypeNext, CoveredNext, PTL DEF Spec

-----------------------------------------------------------------------------

\* Two runs that are past the check at once have met.
Met ==
  \A q, r \in Runs : q # r /\ pc[q] \in Busy /\ pc[r] \in Busy => r \in overlapped

\* From the upload of its bitstream a run that met no other has its own file.
HasOwnFile(r) ==
  /\ pc[r] \in {"upload", "cut"} /\ pos[r] > 1 => file["bit"] = r
  /\ pc[r] \in {"probe", "stop", "load"} => file["bit"] = r
  /\ pc[r] = "capture" => fpga = r
  /\ pc[r] # "restore" => capture[r] = none
  /\ capture[r] \in {r, none}

\* From its check on, what a run finds is its own unless it met another.
OwnInv == Met /\ \A r \in Runs \ overlapped : HasOwnFile(r)

\* An action of one run after the check leaves every other that met none alone.
LEMMA OthersKeep ==
  ASSUME OwnInv, Met', NEW r \in Runs, overlapped' = overlapped,
         \A q \in Runs \ {r} :
           pc'[q] = pc[q] /\ pos'[q] = pos[q] /\ capture'[q] = capture[q],
         pc[r] \in Busy \/ (file' = file /\ fpga' = fpga),
         r \notin overlapped => HasOwnFile(r)'
  PROVE  OwnInv'
<1>1. ASSUME NEW q \in Runs \ overlapped, q # r PROVE HasOwnFile(q)'
  <2>1. HasOwnFile(q)
    BY <1>1 DEF OwnInv
  <2>2. CASE pc[q] \in Busy /\ pc[r] \in Busy
    BY <1>1, <2>2 DEF OwnInv, Met
  <2>3. CASE file' = file /\ fpga' = fpga
    BY <1>1, <2>1, <2>3 DEF HasOwnFile
  <2>4. CASE pc[q] \notin Busy
    BY <1>1, <2>1, <2>4 DEF HasOwnFile, Busy
  <2> QED
    BY <2>2, <2>3, <2>4
<1> QED
  BY <1>1 DEF OwnInv

\* A run stays among those past the check, or leaves them.
LEMMA MetKept ==
  ASSUME Met, NEW r \in Runs, overlapped' = overlapped,
         \A q \in Runs \ {r} : pc'[q] = pc[q],
         pc[r] \in Busy \/ pc'[r] \notin Busy
  PROVE  Met'
  BY DEF Met, Busy

\* Every step keeps it.
LEMMA OwnNext == TypeOK /\ OwnInv /\ [Next]_vars => OwnInv'
<1> SUFFICES ASSUME TypeOK, OwnInv, [Next]_vars PROVE OwnInv'
  OBVIOUS
<1> USE DEF Goto, Reset, End
<1>a. /\ pc \in [Runs -> Busy \cup {"idle", "session", "done"}]
      /\ pos \in [Runs -> Nat] /\ capture \in [Runs -> Runs \cup {"part", none}]
      /\ DOMAIN file = {"bit", "cfg", "script"}
  BY FileFacts DEF TypeOK
<1>b. Met /\ \A r \in Runs : r \notin overlapped => HasOwnFile(r)
  BY DEF OwnInv
<1>0. CASE UNCHANGED vars
  BY <1>0 DEF vars, OwnInv, Met, HasOwnFile
<1>1. ASSUME NEW r \in Runs, NEW matches \in BOOLEAN, NEW force \in BOOLEAN,
             Start(r, matches, force)
      PROVE  OwnInv'
  <2>1. PICK l \in {"session", "idle"} : pc' = [pc EXCEPT ![r] = l]
    BY <1>1 DEF Start
  <2>2. /\ overlapped' = overlapped \ {r} /\ capture' = [capture EXCEPT ![r] = none]
        /\ pos' = [pos EXCEPT ![r] = 1] /\ UNCHANGED <<file, fpga>>
    BY <1>1 DEF Start
  <2>3. Met'
    BY <1>a, <1>b, <2>1, <2>2 DEF Met, Busy
  <2>4. HasOwnFile(r)'
    BY <1>a, <2>1, <2>2 DEF HasOwnFile
  <2>5. ASSUME NEW q \in Runs \ overlapped, q # r PROVE HasOwnFile(q)'
    BY <1>a, <1>b, <2>1, <2>2, <2>5 DEF HasOwnFile
  <2> QED
    BY <2>2, <2>3, <2>4, <2>5 DEF OwnInv
<1>2. ASSUME NEW r \in Runs, NEW answered \in BOOLEAN, NEW recent \in BOOLEAN,
             NEW force \in BOOLEAN, CheckSession(r, answered, recent, force)
      PROVE  OwnInv'
  <2>1. pc[r] = "session" /\ UNCHANGED <<pos, file, fpga, capture>>
    BY <1>2 DEF CheckSession, boardVars
  <2>2. CASE pc' = [pc EXCEPT ![r] = "idle"] /\ UNCHANGED overlapped
    <3>1. Met'
      BY <1>a, <1>b, <2>2, MetKept DEF Busy
    <3>2. r \notin overlapped => HasOwnFile(r)'
      BY <1>a, <1>b, <2>1, <2>2 DEF HasOwnFile
    <3> QED
      BY <1>a, <2>1, <2>2, <3>1, <3>2, OthersKeep
  <2>3. ASSUME NEW others, others = {q \in Runs \ {r} : pc[q] \in Busy},
               pc' = [pc EXCEPT ![r] = "upload"],
               overlapped' = overlapped \cup others \cup (IF others = {} THEN {} ELSE {r})
        PROVE  OwnInv'
    <3>1. Met'
      BY <1>a, <1>b, <2>1, <2>3 DEF Met
    <3>2. r \notin overlapped => HasOwnFile(r)'
      <4>1. pos[r] = 1
        BY <2>1 DEF TypeOK, Busy
      <4> QED
        BY <1>a, <1>b, <2>1, <2>3, <4>1 DEF HasOwnFile
    <3>3. ASSUME NEW q \in Runs \ overlapped, q # r PROVE HasOwnFile(q)'
      BY <1>a, <1>b, <2>1, <2>3, <3>3 DEF HasOwnFile
    <3> QED
      BY <2>3, <3>1, <3>2, <3>3 DEF OwnInv
  <2> QED
    BY <1>2, <2>2, <2>3 DEF CheckSession
<1>3. ASSUME NEW r \in Runs, UploadBegin(r) PROVE OwnInv'
  <2>1. /\ pc[r] = "upload" /\ pc' = [pc EXCEPT ![r] = "cut"]
        /\ file' = [file EXCEPT ![Files[pos[r]]] = "part"]
        /\ UNCHANGED <<pos, fpga, capture, overlapped>>
    BY <1>3 DEF UploadBegin
  <2>2. Met'
    BY <1>a, <1>b, <2>1, MetKept DEF Busy
  <2>3. pos[r] \in 1..3
    BY <2>1, FileFacts DEF TypeOK
  <2>4. pos[r] > 1 => file'["bit"] = file["bit"]
    BY <1>a, <2>1, <2>3, FileFacts
  <2>5. r \notin overlapped => HasOwnFile(r)'
    BY <1>a, <1>b, <2>1, <2>4 DEF HasOwnFile
  <2> QED
    BY <1>a, <2>1, <2>2, <2>5, OthersKeep DEF Busy
<1>4. ASSUME NEW r \in Runs, UploadEnd(r) \/ UploadFails(r) PROVE OwnInv'
  <2>1. /\ pc[r] \in {"upload", "cut"} /\ UNCHANGED <<fpga, capture, overlapped>>
        /\ \A q \in Runs \ {r} : pc'[q] = pc[q] /\ pos'[q] = pos[q]
    BY <1>4, <1>a DEF UploadEnd, UploadFails, next_upload, upload_failed, boardVars
  <2>2. Met'
    BY <1>b, <2>1, MetKept DEF Busy
  <2>3. CASE upload_failed(r)
    <3>1. r \notin overlapped => HasOwnFile(r)'
      BY <1>a, <1>b, <2>1, <2>3 DEF HasOwnFile, upload_failed
    <3> QED
      BY <2>1, <2>2, <3>1, OthersKeep DEF Busy
  <2>4. CASE next_upload(r) /\ UploadEnd(r) /\ ~upload_failed(r)
    <3>1. pc[r] = "cut" /\ pos[r] \in 1..3
      BY <2>4, FileFacts DEF UploadEnd, TypeOK
    <3>2. r \notin overlapped => file' = [file EXCEPT ![Files[pos[r]]] = r]
      BY <2>4 DEF UploadEnd
    <3>3. r \notin overlapped => file'["bit"] = r
      <4>1. CASE pos[r] = 1
        BY <1>a, <3>2, <4>1, FileFacts
      <4>2. CASE pos[r] > 1
        <5>1. Files[pos[r]] # "bit"
          BY <3>1, <4>2, FileFacts
        <5> QED
          BY <1>a, <1>b, <3>1, <3>2, <4>2, <5>1 DEF HasOwnFile
      <4> QED
        BY <3>1, <4>1, <4>2
    <3>4. pc'[r] \in {"probe", "upload"}
      BY <1>a, <2>4 DEF next_upload
    <3>5. r \notin overlapped => HasOwnFile(r)'
      BY <1>b, <2>1, <3>3, <3>4 DEF HasOwnFile
    <3> QED
      BY <2>1, <2>2, <3>5, OthersKeep DEF Busy
  <2> QED
    BY <1>4, <2>3, <2>4 DEF UploadEnd, UploadFails
<1>5. ASSUME NEW r \in Runs, NEW obeyed \in BOOLEAN, Probe(r) \/ Stop(r, obeyed)
      PROVE  OwnInv'
  <2>1. /\ pc[r] \in {"probe", "stop"} /\ pc'[r] \in {"stop", "load"}
        /\ UNCHANGED <<file, fpga, capture, overlapped>>
        /\ \A q \in Runs \ {r} : pc'[q] = pc[q] /\ pos'[q] = pos[q]
    BY <1>5, <1>a DEF Probe, Stop, boardVars
  <2>2. Met'
    BY <1>b, <2>1, MetKept DEF Busy
  <2>3. r \notin overlapped => HasOwnFile(r)'
    BY <1>b, <2>1 DEF HasOwnFile
  <2> QED
    BY <2>1, <2>2, <2>3, OthersKeep
<1>6. ASSUME NEW r \in Runs, Load(r) PROVE OwnInv'
  <2>1. /\ pc[r] = "load" /\ pc'[r] \in {"capture", "restore"}
        /\ pc'[r] = "capture" => fpga' = file["bit"]
        /\ UNCHANGED <<file, capture, overlapped>>
        /\ \A q \in Runs \ {r} : pc'[q] = pc[q] /\ pos'[q] = pos[q]
    BY <1>6, <1>a DEF Load, load_failed, Restoring
  <2>2. Met'
    BY <1>b, <2>1, MetKept DEF Busy
  <2>3. r \notin overlapped => HasOwnFile(r)'
    BY <1>b, <2>1 DEF HasOwnFile
  <2> QED
    BY <2>1, <2>2, <2>3, OthersKeep DEF Busy
<1>7. ASSUME NEW r \in Runs, Capture(r) PROVE OwnInv'
  <2>1. /\ pc[r] = "capture" /\ pc'[r] = "restore" /\ UNCHANGED <<file, fpga, overlapped>>
        /\ capture' = [capture EXCEPT ![r] = fpga] \/ UNCHANGED capture
        /\ \A q \in Runs \ {r} : pc'[q] = pc[q] /\ pos'[q] = pos[q]
    BY <1>7, <1>a DEF Capture, Restoring
  <2>2. Met'
    BY <1>b, <2>1, MetKept DEF Busy
  <2>3. r \notin overlapped => HasOwnFile(r)'
    BY <1>a, <1>b, <2>1 DEF HasOwnFile
  <2> QED
    BY <1>a, <2>1, <2>2, <2>3, OthersKeep
<1>8. ASSUME NEW r \in Runs, NEW obeyed \in BOOLEAN,
             Restore(r, obeyed) \/ Finish(r) \/ Interrupt(r, obeyed)
      PROVE  OwnInv'
  <2>1. /\ pc[r] \in Busy \cup {"session"} /\ UNCHANGED <<file, fpga, overlapped>>
        /\ \/ pc[r] = "restore" /\ pc'[r] = "restore" /\ UNCHANGED capture
           \/ pc[r] # "restore" /\ pc[r] \in Busy /\ pc'[r] = "restore" /\ UNCHANGED capture
           \/ pc'[r] \in {"idle", "done"} /\ capture' = [capture EXCEPT ![r] = none]
        /\ \A q \in Runs \ {r} : pc'[q] = pc[q] /\ pos'[q] = pos[q]
    <3>1. CASE Restore(r, obeyed)
      BY <1>a, <3>1 DEF Restore, boardVars, Busy
    <3>2. CASE Finish(r)
      BY <1>a, <3>2 DEF Finish, Busy
    <3>3. CASE Interrupt(r, obeyed)
      BY <1>a, <3>3 DEF Interrupt, Restoring, Busy
    <3> QED
      BY <1>8, <3>1, <3>2, <3>3
  <2>2. Met'
    BY <1>b, <2>1, MetKept DEF Busy
  <2>3. r \notin overlapped => HasOwnFile(r)'
    BY <1>a, <1>b, <2>1 DEF HasOwnFile
  <2>4. \A q \in Runs \ {r} : capture'[q] = capture[q]
    BY <1>a, <2>1
  <2> QED
    BY <2>1, <2>2, <2>3, <2>4, OthersKeep
<1> QED
  BY <1>0, <1>1, <1>2, <1>3, <1>4, <1>5, <1>6, <1>7, <1>8 DEF Next

(* A run that met no other captures the output of its own bitstream or     *)
(* nothing, whatever failed and whatever earlier runs left on the Pi.      *)
THEOREM OwnBitstreamCaptured == Spec => []CapturesOwnBitstream
<1>1. Init => OwnInv
  BY DEF Init, OwnInv, Met, HasOwnFile, Busy
<1>2. OwnInv => CapturesOwnBitstream
  BY DEF OwnInv, HasOwnFile, CapturesOwnBitstream
<1> QED
  BY <1>1, <1>2, TypeInit, TypeNext, OwnNext, PTL DEF Spec
=============================================================================

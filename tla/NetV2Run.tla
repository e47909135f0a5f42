------------------------------ MODULE NetV2Run ------------------------------
(***************************************************************************)
(* host/netv2_run.py: a run uploads a bitstream to the Pi beside the FPGA, *)
(* stops the services that hold the serial port, loads, captures and       *)
(* restarts the services.  Several runs may use the same Pi: the check for *)
(* recent activity leaves out the tool's own directory (line 97), so they  *)
(* do not see each other.                                                  *)
(*                                                                         *)
(* A step is one ssh command, whose connection may fail before or after    *)
(* the command took effect.  The user may interrupt any step.              *)
(***************************************************************************)
EXTENDS Integers, Sequences, FiniteSets, SequencesExt

CONSTANTS Runs,     \* invocations of main on one host
          Services, \* those the profile may stop, in order: getty, pm2_app
          Noise,    \* other lines an ssh command may print, as words, no two of them
          none      \* no run

ASSUME RunsAssumption == none \notin Runs /\ "part" \notin Runs
ASSUME ServicesAssumption == Services \in Seq(ToSet(Services)) /\ Services # <<>>
ASSUME NoiseAssumption == \A l \in Noise : Len(l) # 2

VARIABLES pc,         \* [Runs -> where main is]
          pos,        \* [Runs -> the next service or file of its loop]
          was_active, \* [Runs -> services the probe said to restart]
          file,       \* [the remote file -> the run whose upload it is, "part", or none]
          fpga,       \* the run whose bitstream is loaded, "part" or none
          capture,    \* [Runs -> whose bitstream it captured]
          up,         \* services running
          first_up,   \* history: those running at first
          overlapped, \* history: runs that met another
          blind,      \* history: down, stopped by a run that had not heard they ran
          lost        \* history: down, a restart of theirs did not get through

vars == <<pc, pos, was_active, file, fpga, capture, up, first_up, overlapped, blind, lost>>
serviceVars == <<up, blind, lost>>
boardVars == <<file, fpga, capture>>

\* Uploaded, in order: the bitstream, its openocd_cfg, console_capture.py.
Files == <<"bit", "cfg", "script">>

Busy == {"upload", "cut", "probe", "stop", "load", "capture", "restore"}
Names == ToSet(Services)

Init ==
  /\ pc = [r \in Runs |-> "idle"] /\ pos = [r \in Runs |-> 1]
  /\ was_active = [r \in Runs |-> {}]
  /\ file = [f \in ToSet(Files) |-> none] /\ fpga = none
  /\ capture = [r \in Runs |-> none]
  /\ up \in SUBSET Names /\ first_up = up
  /\ overlapped = {} /\ blind = {} /\ lost = {}

Goto(r, l) == pc' = [pc EXCEPT ![r] = l]

Reset(r, n) == pos' = [pos EXCEPT ![r] = n]

\* main ends, by a return (2 and 3 when it refuses) or by an exception.
End(r, l) ==
  /\ Goto(r, l) /\ Reset(r, 1)
  /\ was_active' = [was_active EXCEPT ![r] = {}]
  /\ capture' = [capture EXCEPT ![r] = none]

\* The answer of probe_command: at most a line per service, among others; cut
\* short when ssh fails.  A unit on its way up is "activating".
Answers(running) ==
  {text \in SUBSET ((running \X {"active", "activating"})
                      \cup ((Names \ running) \X {"inactive"}) \cup Noise) :
     \A l, m \in text : Len(l) = 2 /\ Len(m) = 2 /\ l[1] = m[1] => l = m}

parse_probe(text) == {l[1] : l \in {m \in text : Len(m) = 2 /\ m[2] = "active"}}

\* ---- checks and uploads ----

\* Nothing is asked of the host for a bitstream of another variant.
Start(r, matches, force) ==
  /\ pc[r] \in {"idle", "done"}
  /\ End(r, IF matches \/ force THEN "session" ELSE "idle")
  /\ overlapped' = overlapped \ {r}
  /\ UNCHANGED <<file, fpga, serviceVars, first_up>>

\* check=False: a session probe that failed shows no recent file.
CheckSession(r, answered, recent, force) ==
  /\ pc[r] = "session"
  /\ IF answered /\ recent /\ ~force
       THEN Goto(r, "idle") /\ UNCHANGED overlapped
       ELSE LET others == {q \in Runs \ {r} : pc[q] \in Busy}
            IN  /\ Goto(r, "upload")
                /\ overlapped' = overlapped \cup others \cup (IF others = {} THEN {} ELSE {r})
  /\ UNCHANGED <<pos, was_active, boardVars, serviceVars, first_up>>

\* cat > truncates the file, then writes it.
UploadBegin(r) ==
  /\ pc[r] = "upload"
  /\ Goto(r, "cut") /\ file' = [file EXCEPT ![Files[pos[r]]] = "part"]
  /\ UNCHANGED <<pos, was_active, fpga, capture, serviceVars, first_up, overlapped>>

next_upload(r) ==
  IF pos[r] = Len(Files) THEN Goto(r, "probe") /\ Reset(r, 1)
                         ELSE Goto(r, "upload") /\ Reset(r, pos[r] + 1)

upload_failed_Unchecked(r) == next_upload(r)
upload_failed(r) == Goto(r, "idle") /\ Reset(r, 1)

\* Two uploads at once may leave a mixture of both.
UploadEnd(r) ==
  /\ pc[r] = "cut"
  /\ \/ /\ \E c \in {r} \cup (IF r \in overlapped THEN {"part"} ELSE {}) :
             file' = [file EXCEPT ![Files[pos[r]]] = c]
        /\ next_upload(r)
     \/ upload_failed(r) /\ UNCHANGED file
  /\ UNCHANGED <<was_active, fpga, capture, serviceVars, first_up, overlapped>>

UploadFails(r) ==
  /\ pc[r] = "upload" /\ upload_failed(r)
  /\ UNCHANGED <<was_active, boardVars, serviceVars, first_up, overlapped>>

\* ---- the services and the board ----

Probe(r) ==
  /\ pc[r] = "probe"
  /\ \E text \in Answers(up) : was_active' = [was_active EXCEPT ![r] = parse_probe(text)]
  /\ Goto(r, "stop") /\ Reset(r, 1)
  /\ UNCHANGED <<boardVars, serviceVars, first_up, overlapped>>

Down(r, s) ==
  /\ up' = up \ {s}
  /\ blind' = IF s \in up \ was_active[r] THEN blind \cup {s} ELSE blind
  /\ UNCHANGED lost

\* check=False and || true: on to the next whatever came of it.
Stop(r, obeyed) ==
  /\ pc[r] = "stop" /\ pos[r] <= Len(Services)
  /\ IF obeyed THEN Down(r, Services[pos[r]]) ELSE UNCHANGED serviceVars
  /\ IF pos[r] = Len(Services) THEN Goto(r, "load") ELSE UNCHANGED pc
  /\ Reset(r, pos[r] + 1)
  /\ UNCHANGED <<was_active, boardVars, first_up, overlapped>>

Restoring(r) == Goto(r, "restore") /\ Reset(r, 1)

load_failed_NoFinally(r) == End(r, "idle")
load_failed(r) == Restoring(r) /\ UNCHANGED <<was_active, capture>>

\* openocd refuses its cfg when cut, not a bitstream.
Load(r) ==
  /\ pc[r] = "load"
  /\ \/ /\ file["cfg"] \in Runs
        /\ fpga' = file["bit"] /\ Goto(r, "capture") /\ UNCHANGED <<pos, was_active, capture>>
     \/ load_failed(r) /\ fpga' \in {fpga, file["bit"], "part"}
  /\ UNCHANGED <<file, serviceVars, first_up, overlapped>>

Capture(r) ==
  /\ pc[r] = "capture"
  /\ \/ file["script"] \in Runs /\ capture' = [capture EXCEPT ![r] = fpga]
     \/ UNCHANGED capture
  /\ Restoring(r)
  /\ UNCHANGED <<was_active, file, fpga, serviceVars, first_up, overlapped>>

\* What is left to restart: the places of those heard active, in the profile's order.
restore_commands(r) == {i \in pos[r]..Len(Services) : Services[i] \in was_active[r]}

Up(s) == up' = up \cup {s} /\ blind' = blind \ {s} /\ lost' = lost \ {s}

Missed(missed) == lost' = lost \cup (missed \ up) /\ UNCHANGED <<up, blind>>

Restore(r, obeyed) ==
  /\ pc[r] = "restore"
  /\ \E i \in restore_commands(r) :
       /\ \A j \in restore_commands(r) : i <= j
       /\ IF obeyed THEN Up(Services[i]) ELSE Missed({Services[i]})
       /\ Reset(r, i + 1)
  /\ UNCHANGED <<pc, was_active, boardVars, first_up, overlapped>>

\* main returns 0, or goes on with the exception of a failed step.
Finish(r) ==
  /\ pc[r] = "restore" /\ restore_commands(r) = {}
  /\ End(r, "done")
  /\ UNCHANGED <<file, fpga, serviceVars, first_up, overlapped>>

\* Still owed by r: from its probe to the end of its finally clause.
owed(r) ==
  CASE pc[r] \in {"stop", "load", "capture"} -> was_active[r]
    [] pc[r] = "restore" -> {Services[i] : i \in restore_commands(r)}
    [] OTHER -> {}

\* In the try clause the services are still restarted; in finally no more.
Interrupt(r, obeyed) ==
  /\ pc[r] \in Busy \cup {"session"}
  /\ CASE pc[r] = "stop" /\ obeyed -> Down(r, Services[pos[r]])
       [] pc[r] = "restore" -> Missed(owed(r))
       [] OTHER -> UNCHANGED serviceVars
  /\ IF pc[r] \in {"stop", "load", "capture"}
       THEN Restoring(r) /\ UNCHANGED <<was_active, capture>>
       ELSE End(r, "idle")
  /\ UNCHANGED <<file, fpga, first_up, overlapped>>

Next ==
  \E r \in Runs :
    \/ \E force \in BOOLEAN :
         \/ \E matches \in BOOLEAN : Start(r, matches, force)
         \/ \E answered, recent \in BOOLEAN : CheckSession(r, answered, recent, force)
    \/ UploadBegin(r) \/ UploadEnd(r) \/ UploadFails(r) \/ Probe(r)
    \/ \E obeyed \in BOOLEAN : Stop(r, obeyed) \/ Restore(r, obeyed) \/ Interrupt(r, obeyed)
    \/ Load(r) \/ Capture(r) \/ Finish(r)

Spec == Init /\ [][Next]_vars

\* ---- properties ----

(* Every register holds what its uses expect; a run restarts only services *)
(* that ran before the first of them, however noisy the answer it parsed.  *)
TypeOK ==
  /\ pc \in [Runs -> Busy \cup {"idle", "session", "done"}]
  /\ pos \in [Runs -> Nat]
  /\ \A r \in Runs : pos[r] \in 1..(IF pc[r] \in {"upload", "cut"} THEN Len(Files)
                                    ELSE IF pc[r] \in Busy THEN Len(Services) + 1 ELSE 1)
  /\ was_active \in [Runs -> SUBSET first_up]
  /\ file \in [ToSet(Files) -> Runs \cup {"part", none}]
  /\ fpga \in Runs \cup {"part", none} /\ capture \in [Runs -> Runs \cup {"part", none}]
  /\ up \subseteq first_up /\ first_up \subseteq Names /\ overlapped \subseteq Runs

(* However the runs overlap, fail and are interrupted: a service that ran  *)
(* before the first of them runs, or some run will yet restart it, or its  *)
(* stop or its restart met one of the two gaps of the tool (a probe that   *)
(* did not say it ran, a restart that did not get through).                *)
NothingLeftDown ==
  first_up \ up \subseteq (UNION {owed(r) : r \in Runs}) \cup blind \cup lost

(* Whatever earlier runs left on the Pi and on the board, a run that met   *)
(* no other captures the output of its own bitstream or nothing.           *)
CapturesOwnBitstream ==
  \A r \in Runs \ overlapped : capture[r] \in {r, none}

(* What netv2_run.py says of itself (lines 4-6): services it stops are     *)
(* restarted afterwards if they were running before.  Said here of a run   *)
(* that met no other, came to its end, and whose restarts got through.     *)
RestartedAfterwards ==
  \A r \in Runs \ overlapped : pc[r] = "done" => first_up \ lost \subseteq up
=============================================================================

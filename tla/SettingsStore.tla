--------------------------- MODULE SettingsStore ---------------------------
(***************************************************************************)
(* The settings: a working copy behind the SETTINGS mutex, a flash page    *)
(* with its checksum, the protobuf thread that reads and changes them, the *)
(* sensor thread whose condition monitors latch limit violations in them,  *)
(* and the one-shot timer by which both have them saved.                   *)
(*                                                                         *)
(* A closure of settings_action runs under the mutex and never blocks here *)
(* (its wait for the command queue is in SensorProcessor), so it is one    *)
(* step.  Only a save, erase, body and checksum in turn, holds the mutex   *)
(* long enough for the 1 ms of the protobuf thread to run out.             *)
(***************************************************************************)
EXTENDS Naturals, FiniteSets

CONSTANTS
    Monitors,        \* monitored quantities: P, T, TCPU, Vbat
    OverLimitCount,  \* config::OVER_LIMIT_COUNT
    Times,           \* measure times MIN_MT..MAX_MT
    BadTime,         \* a measure time outside
    Passwords,       \* passwords, padded to PASSWORD_SIZE
    ZeroPassword,    \* [0; 10], what the user "entered" after a restart
    Default,         \* DEFAULT_SETTINGS
    Requests,        \* requests the host sends
    MaxRequests, MaxBoots, MaxFaults,
    None

\* AppSettings: an unprotected value (measure time), a protected one (is there
\* an absolute maximum or is it NaN), the password, the latched violations.
Settings == [mt : Times, limit : BOOLEAN, password : Passwords, over : SUBSET Monitors]

\* The fields of a request that concern the settings, each of them optional.
Request ==
    [write : {None} \cup [mt : Times \cup {BadTime, None}, limit : BOOLEAN \cup {None},
                           entered : Passwords \cup {None}],
     password : Passwords \cup {None},
     reset : BOOLEAN]

ASSUME SettingsAssumption ==
    /\ OverLimitCount \in Nat
    /\ ZeroPassword \in Passwords /\ Default \in Settings
    /\ BadTime \notin Times
    /\ Requests \subseteq Request
    /\ \A n \in {MaxRequests, MaxBoots, MaxFaults} : n \in Nat
    /\ None \notin Settings \cup BOOLEAN \cup {"saver", "boot", "erase", "body", "crc"}

Blank == [body |-> None, crc |-> None]

VARIABLES
    mode,      \* "boot", "up", or "panic"
    work,      \* SettingsManager::work_copy
    current,   \* NonStoreSettings::current_password
    count,     \* ConditionMonitor counter of each quantity
    page,      \* the flash page: body and the checksum behind it
    lock,      \* owner of SETTINGS while it saves: "saver", "boot" or None
    stage,     \* next step of FlasRWPolcy::store, None when it is not running
    crc,       \* the checksum computed at its start
    armed,     \* TIMER holds a timer that has not fired
    saver,     \* the timer callback: "idle", "fired", "saving", "saved"
    prot,      \* protobuf thread: next part of the request, request, status
    alarmed,   \* sensor thread: raised a violation, save not yet requested
    lost,      \* ghost: why a change will not be saved by itself
    saved,     \* ghost: what the last completed save wrote
    intact,    \* ghost: no save was cut or failed since
    boots, requests, faults

settingsVars == <<work, current, count>>
storeVars == <<page, lock, stage, crc, saved, intact>>
bounds == <<boots, requests, faults>>
vars == <<mode, settingsVars, storeVars, armed, saver, prot, alarmed, lost, bounds>>

Init ==
    /\ mode = "boot" /\ work = Default /\ current = ZeroPassword
    /\ count = [m \in Monitors |-> 0]
    /\ page = Blank /\ lock = None /\ stage = None /\ crc = None
    /\ armed = FALSE /\ saver = "idle" /\ alarmed = FALSE
    /\ prot = [pc |-> "idle", req |-> None, status |-> "ok"]
    /\ lost = {} /\ saved = None /\ intact = TRUE
    /\ boots = 0 /\ requests = 0 /\ faults = 0

Up == mode = "up"
Free == lock = None

\* A plausible slip: the closure runs although the mutex was not obtained.
MayEnter_Unlocked == TRUE

\* settings_action has the mutex and runs its closure.
MayEnter == Free

\* ... or, in the protobuf thread, its 1 ms for the mutex ran out. A save works
\* at the highest priority, so this is rarer in the code than it is here.
TimedOut == ~Free

-----------------------------------------------------------------------------
(* Saving: FlasRWPolcy::store, its caller holding SETTINGS *)

\* The checksum is taken before the page is touched.
BeginStore(owner) ==
    /\ Free
    /\ lock' = owner /\ stage' = "erase"

ErasePage ==
    /\ stage = "erase"
    /\ page' = Blank /\ stage' = "body" /\ intact' = FALSE
    /\ UNCHANGED <<mode, settingsVars, lock, crc, armed, saver, prot, alarmed, lost, saved, bounds>>

WriteBody ==
    /\ stage = "body"
    /\ page' = [page EXCEPT !.body = work] /\ stage' = "crc"
    /\ UNCHANGED <<mode, settingsVars, lock, crc, armed, saver, prot, alarmed, lost, saved, intact, bounds>>

\* The mutex is released when store returns, with or without an error; the
\* callback only logs the error, the boot panics.
EndStore(ok) ==
    /\ lock' = None /\ stage' = None
    /\ saver' = IF lock = "saver" THEN "saved" ELSE saver
    /\ mode' = IF lock = "boot" THEN (IF ok THEN "up" ELSE "panic") ELSE mode
    /\ lost' = IF ok THEN {} ELSE lost \cup {"failed"}

WriteCrc ==
    /\ stage = "crc"
    /\ page' = [page EXCEPT !.crc = crc]
    /\ EndStore(TRUE)
    /\ saved' = crc /\ intact' = TRUE
    /\ UNCHANGED <<settingsVars, crc, armed, prot, alarmed, bounds>>

\* An error of the flash ends store early; the page keeps what it has.
StoreFails ==
    /\ stage # None /\ faults < MaxFaults
    /\ faults' = faults + 1
    /\ EndStore(FALSE)
    /\ UNCHANGED <<settingsVars, page, crc, armed, prot, alarmed, saved, intact, boots, requests>>

\* What a boot finds: the body, if the checksum behind it is its own.
Sealed == page.body # None /\ page.crc = page.body

\* SettingsManager::new: load, or the defaults and a save of them.
Load ==
    /\ mode = "boot" /\ Free
    /\ IF Sealed
         THEN /\ work' = page.body /\ mode' = "up"
              /\ UNCHANGED <<lock, stage, crc>>
         ELSE /\ work' = Default
              /\ BeginStore("boot") /\ crc' = Default
              /\ UNCHANGED mode
    /\ UNCHANGED <<current, count, page, saved, intact, armed, saver, prot, alarmed, lost, bounds>>

\* Power is lost at any step; the RAM starts over.
PowerLoss ==
    /\ boots < MaxBoots /\ boots' = boots + 1
    /\ mode' = "boot" /\ lock' = None /\ stage' = None
    /\ armed' = FALSE /\ saver' = "idle" /\ alarmed' = FALSE
    /\ prot' = [pc |-> "idle", req |-> None, status |-> "ok"]
    /\ current' = ZeroPassword
    /\ count' = [m \in Monitors |-> 0]
    /\ lost' = {}
    /\ UNCHANGED <<work, page, crc, saved, intact, requests, faults>>

-----------------------------------------------------------------------------
(* start_writing_settings and its timer *)

\* A plausible shortcut: a timer is there already, so nothing is to be done.
StartTimer_OnlyOne ==
    armed' = (armed \/ saver = "idle")

\* The new timer is started and replaces the one in TIMER, which is deleted: if
\* that one has fired, its callback goes on; if it has not, it never will.
StartTimer == armed' = TRUE

\* Timer::create may fail for lack of memory: the caller reports it and goes on.
StartWriting(onError) ==
    \/ StartTimer /\ UNCHANGED <<lost, faults>> /\ onError = "ok"
    \/ /\ faults < MaxFaults /\ faults' = faults + 1
       /\ lost' = lost \cup {"failed"} /\ onError = "errors"
       /\ UNCHANGED armed

\* The callback saver runs in the timer daemon; it waits for SETTINGS.
Fire ==
    /\ Up /\ armed /\ saver = "idle"
    /\ armed' = FALSE /\ saver' = "fired"
    /\ UNCHANGED <<mode, settingsVars, storeVars, prot, alarmed, lost, bounds>>

Save ==
    /\ Up /\ saver = "fired"
    /\ BeginStore("saver") /\ crc' = work
    /\ saver' = "saving"
    /\ UNCHANGED <<mode, settingsVars, page, saved, intact, armed, prot, alarmed, lost, bounds>>

\* TIMER is emptied: a timer put there since this one fired is deleted with it,
\* and the change it was to save stays in the working copy.
ClearTimer ==
    /\ Up /\ saver = "saved"
    /\ saver' = "idle" /\ armed' = FALSE
    /\ lost' = IF armed THEN lost \cup {"dropped"} ELSE lost
    /\ UNCHANGED <<mode, settingsVars, storeVars, prot, alarmed, bounds>>

-----------------------------------------------------------------------------
(* The protobuf thread: process_requiest, its parts in order *)

AfterPassword(req) == IF req.reset THEN "reset" ELSE "idle"
AfterFill(req) == IF req.password # None THEN "password" ELSE AfterPassword(req)
FirstPart(req) == IF req.write # None THEN "verify" ELSE AfterFill(req)

At(part) == Up /\ prot.pc = part

Goto(part, status) == prot' = [prot EXCEPT !.pc = part, !.status = status]

Receive ==
    /\ At("idle") /\ requests < MaxRequests
    /\ requests' = requests + 1
    /\ \E req \in Requests :
         prot' = [pc |-> FirstPart(req), req |-> req, status |-> "ok"]
    /\ UNCHANGED <<mode, settingsVars, storeVars, armed, saver, alarmed, lost, boots, faults>>

PasswordInvalid == work.password # current

\* A plausible slip: the password is not asked for.
Denied_Never(w) == w.mt = BadTime

\* verify_parameters refuses a value out of range, and a protected one without
\* the password.
Denied(w) == w.mt = BadTime \/ (w.limit # None /\ PasswordInvalid)

Verify ==
    /\ At("verify")
    /\ \/ /\ MayEnter /\ ~Denied(prot.req.write)
          /\ Goto("update", prot.status)
       \/ /\ MayEnter /\ Denied(prot.req.write)
          /\ Goto("fill", "errors")
       \/ /\ TimedOut
          /\ Goto("fill", "errors")
    /\ UNCHANGED <<mode, settingsVars, storeVars, armed, saver, alarmed, lost, bounds>>

\* store_coeff!: a field that is present is stored and asks for a save, the
\* entered password is not saved.
NeedWrite(w) == w.mt # None \/ w.limit # None

OrOld(new, old) == IF new = None THEN old ELSE new

Update ==
    /\ At("update")
    /\ \/ /\ MayEnter
          /\ LET w == prot.req.write IN
               /\ work' = [work EXCEPT !.mt = OrOld(w.mt, @), !.limit = OrOld(w.limit, @)]
               /\ current' = OrOld(w.entered, current)
               /\ Goto(IF NeedWrite(w) THEN "start" ELSE "fill", prot.status)
       \/ /\ TimedOut
          /\ Goto("fill", "errors")
          /\ UNCHANGED <<work, current>>
    /\ UNCHANGED <<mode, count, storeVars, armed, saver, alarmed, lost, bounds>>

\* The save of update_settings or of change_password is requested.
RequestSave ==
    /\ At("start") \/ At("startPassword")
    /\ \E outcome \in {"ok", "errors"} :
         /\ StartWriting(outcome)
         /\ Goto(IF prot.pc = "start" THEN "fill" ELSE AfterPassword(prot.req),
                 IF outcome = "ok" THEN prot.status ELSE outcome)
    /\ UNCHANGED <<mode, settingsVars, storeVars, saver, alarmed, boots, requests>>

\* fill_settings; when the mutex is not to be had, process_requiest returns Err
\* and the request, although carried out, gets no response at all.
FillSettings ==
    /\ At("fill")
    /\ \/ /\ MayEnter
          /\ Goto(AfterFill(prot.req), prot.status)
       \/ /\ TimedOut
          /\ Goto("idle", "silent")
    /\ UNCHANGED <<mode, settingsVars, storeVars, armed, saver, alarmed, lost, bounds>>

\* change_password: needs the current one; an equal one needs no save.
ChangePassword ==
    /\ At("password")
    /\ LET pass == prot.req.password
           next == AfterPassword(prot.req) IN
         \/ /\ MayEnter /\ ~PasswordInvalid /\ pass # current
            /\ work' = [work EXCEPT !.password = pass] /\ current' = pass
            /\ Goto("startPassword", prot.status)
         \/ /\ MayEnter /\ ~PasswordInvalid /\ pass = current
            /\ Goto(next, prot.status) /\ UNCHANGED <<work, current>>
         \/ /\ TimedOut \/ PasswordInvalid
            /\ Goto(next, "errors") /\ UNCHANGED <<work, current>>
    /\ UNCHANGED <<mode, count, storeVars, armed, saver, alarmed, lost, bounds>>

\* reset_monitoring_flags tells whether a save is needed; its caller drops the
\* answer, so the page keeps the flags until something else is saved.
ResetMonitoring ==
    /\ At("reset")
    /\ \/ /\ MayEnter
          /\ work' = [work EXCEPT !.over = {}]
          /\ lost' = IF work.over = {} THEN lost ELSE lost \cup {"reset"}
          /\ Goto("idle", prot.status)
       \/ /\ TimedOut
          /\ Goto("idle", "errors") /\ UNCHANGED <<work, lost>>
    /\ UNCHANGED <<mode, current, count, storeVars, armed, saver, alarmed, bounds>>

ProtobufThread ==
    \/ Receive \/ Verify \/ Update \/ RequestSave
    \/ FillSettings \/ ChangePassword \/ ResetMonitoring

-----------------------------------------------------------------------------
(* The sensor thread: ConditionMonitor::check inside calc_pressure, calc_temperature,
   process_t_cpu and process_vbat *)

\* Without a limit (NaN) the counter is left as it is.
NextCount(m, over) ==
    IF ~work.limit THEN count[m]
    ELSE IF ~over THEN 0
    ELSE IF count[m] < OverLimitCount THEN count[m] + 1 ELSE count[m]

Detected(m, over) == work.limit /\ over /\ count[m] >= OverLimitCount

\* The mutex is waited for without limit; the first detection since the flag was
\* last reset asks for a save.
CheckLimit(m, over) ==
    /\ Up /\ MayEnter /\ ~alarmed
    /\ count' = [count EXCEPT ![m] = NextCount(m, over)]
    /\ IF Detected(m, over)
         THEN /\ work' = [work EXCEPT !.over = @ \cup {m}]
              /\ alarmed' = (m \notin work.over)
         ELSE UNCHANGED <<work, alarmed>>
    /\ UNCHANGED <<mode, current, storeVars, armed, saver, prot, lost, bounds>>

\* The result of start_writing_settings is ignored.
RaiseAlarm ==
    /\ Up /\ alarmed
    /\ alarmed' = FALSE
    /\ \E outcome \in {"ok", "errors"} : StartWriting(outcome)
    /\ UNCHANGED <<mode, settingsVars, storeVars, saver, prot, boots, requests>>

SensorThread == RaiseAlarm \/ \E m \in Monitors, over \in BOOLEAN : CheckLimit(m, over)

-----------------------------------------------------------------------------
Store == ErasePage \/ WriteBody \/ WriteCrc \/ StoreFails
Saver == Fire \/ Save \/ ClearTimer

Next == Store \/ Load \/ PowerLoss \/ Saver \/ ProtobufThread \/ SensorThread

Spec == Init /\ [][Next]_vars

\* The timer daemon and the sensor thread have the highest priority; the boot
\* runs alone; requests are not promised.
Fairness ==
    /\ WF_vars(Load) /\ WF_vars(Store) /\ WF_vars(Saver) /\ WF_vars(RaiseAlarm)
    /\ WF_vars(RequestSave)

FairSpec == Spec /\ Fairness

-----------------------------------------------------------------------------
(* Properties *)

\* The types of all state; a save runs exactly while somebody holds SETTINGS for
\* it, and the timer callback is inside it exactly while it is the holder.
TypeOK ==
    /\ mode \in {"boot", "up", "panic"}
    /\ work \in Settings /\ current \in Passwords
    /\ count \in [Monitors -> 0..OverLimitCount]
    /\ page \in [body : Settings \cup {None}, crc : Settings \cup {None}]
    /\ lock \in {"saver", "boot", None} /\ (lock = None <=> stage = None)
    /\ stage \in {"erase", "body", "crc", None} /\ crc \in Settings \cup {None}
    /\ armed \in BOOLEAN /\ alarmed \in BOOLEAN
    /\ saver \in {"idle", "fired", "saving", "saved"} /\ (lock = "saver" <=> saver = "saving")
    /\ prot \in [pc : {"idle", "verify", "update", "start", "fill", "password",
                       "startPassword", "reset"},
                  req : Requests \cup {None}, status : {"ok", "errors", "silent"}]
    /\ saved \in Settings \cup {None} /\ intact \in BOOLEAN
    /\ boots \in 0..MaxBoots /\ requests \in 0..MaxRequests /\ faults \in 0..MaxFaults
    /\ lost \subseteq {"failed", "dropped", "reset"}

\* A save is still to come: its timer is armed, its callback has not taken the
\* checksum, it is under way, or a thread is about to ask for it.
SavePending ==
    \/ armed \/ saver \in {"fired", "saving"} \/ alarmed
    \/ prot.pc \in {"start", "startPassword"}

\* No change of the settings is forgotten: when the working copy differs from
\* what the page would give back, a save is on its way - or is missing for one
\* of three known reasons: a failed flash or timer, a timer deleted by the
\* callback of its predecessor, flags reset without a save (store_async.rs:33,
\* process_requiest.rs:85).
UnsavedHasCause ==
    Up => \/ Sealed /\ page.body = work
          \/ SavePending \/ lost # {}

\* A restart brings back exactly what was last saved, and the defaults only
\* after a save that was cut or failed: nothing may change the working copy
\* between its checksum and its body (flash_rw_polcy.rs:54-78).
RestartKeepsSaved ==
    [][Load /\ intact /\ saved # None => work' = saved /\ mode' = "up"]_vars

\* A protected setting changes only if the user had entered the password, a
\* restart being no way round it (process_settings.rs:77-211, verified under an
\* earlier lock than the one that stores).
ProtectedNeedsPassword ==
    [][Up /\ (work'.limit # work.limit \/ work'.password # work.password)
         => work.password = current]_vars

\* Every change, a latched violation included, reaches the flash by itself, or
\* is left over for one of the three reasons, or the power goes.
ChangesReachFlash ==
    (Up /\ SavePending) ~> (Sealed /\ page.body = work) \/ lost # {} \/ ~Up
=============================================================================

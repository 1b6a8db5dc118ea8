----------------------- MODULE SettingsStore_proofs -----------------------
(***************************************************************************)
(* What is proved of the settings, for every set of monitors, values,      *)
(* passwords and requests and for any number of faults and power losses.   *)
(*                                                                         *)
(* The argument: while a save runs nobody else gets the mutex, so the      *)
(* working copy keeps equal to the checksum taken when the save began, and *)
(* a page is written whole or known to be cut; and a request that has been *)
(* verified stays allowed until it is carried out, since only the protobuf *)
(* thread itself changes the password that was entered.                    *)
(***************************************************************************)
EXTENDS SettingsStore, TLAPS

-----------------------------------------------------------------------------
(* The inductive invariant *)

\* While a save runs, the working copy is what its checksum was taken of, and
\* the body that it sealed (FlasRWPolcy::store under SETTINGS).
SaveIsFrozen ==
    /\ stage # None => crc = work
    /\ stage = "crc" => page.body = work

\* The boot's save is before the threads start, which wait for its end (init).
BootIsAlone ==
    /\ lock = "boot" => mode = "boot"
    /\ mode # "up" => prot.pc = "idle"

\* A page that no save was cut on holds what the last one wrote.
WholePage ==
    /\ intact => stage \in {None, "erase"}
    /\ intact /\ saved # None => page = [body |-> saved, crc |-> saved]

\* The part of the request that is next is there, and a write that is to be
\* carried out is still one that verify_parameters would let pass.
RequestInHand ==
    /\ prot.pc # "idle" => prot.req \in Requests
    /\ prot.pc \in {"verify", "update"} => prot.req.write # None
    /\ prot.pc = "update" => ~Denied(prot.req.write)
    /\ prot.pc = "password" => prot.req.password # None

Inv == SaveIsFrozen /\ BootIsAlone /\ WholePage /\ RequestInHand /\ UnsavedHasCause

-----------------------------------------------------------------------------
(* Types *)

\* What a request leads to is a part of it.
LEMMA PartsOfRequest ==
    ASSUME NEW req \in Request
    PROVE  /\ AfterPassword(req) \in {"reset", "idle"}
           /\ AfterFill(req) \in {"password", "reset", "idle"}
           /\ FirstPart(req) \in {"verify", "password", "reset", "idle"}
           /\ AfterFill(req) = "password" => req.password # None
           /\ FirstPart(req) = "verify" => req.write # None
           /\ FirstPart(req) = "password" => req.password # None
BY DEF AfterPassword, AfterFill, FirstPart

\* A write that is let through leaves settings behind.
LEMMA WrittenSettings ==
    ASSUME NEW req \in Request, NEW old \in Settings, req.write # None,
           req.write.mt # BadTime
    PROVE  LET w == req.write
               new == [old EXCEPT !.mt = OrOld(w.mt, @), !.limit = OrOld(w.limit, @)]
           IN  /\ new \in Settings
               /\ new.password = old.password
               /\ w.limit = None => new.limit = old.limit
               /\ ~NeedWrite(w) => new = old
               /\ w.entered \in Passwords \cup {None}
BY SettingsAssumption DEF Request, Settings, OrOld, NeedWrite

LEMMA InitType == Init => TypeOK
<1>. SUFFICES ASSUME Init PROVE TypeOK
  OBVIOUS
<1>1. /\ count \in [Monitors -> 0..OverLimitCount]
      /\ page \in [body : Settings \cup {None}, crc : Settings \cup {None}]
  BY SettingsAssumption DEF Init, Blank
<1>2. prot \in [pc : {"idle", "verify", "update", "start", "fill", "password",
                      "startPassword", "reset"},
                req : Requests \cup {None}, status : {"ok", "errors", "silent"}]
  BY DEF Init
<1>3. /\ boots \in 0..MaxBoots /\ requests \in 0..MaxRequests /\ faults \in 0..MaxFaults
  BY SettingsAssumption DEF Init
<1>4. lock = None /\ None # "saver" /\ stage = None
  BY SettingsAssumption DEF Init
<1>. QED
  BY <1>1, <1>2, <1>3, <1>4, SettingsAssumption DEF Init, TypeOK

\* The store and the timer move only the page, the lock and the state of the save.
LEMMA SaveTyped ==
    ASSUME TypeOK, UNCHANGED <<settingsVars, prot, alarmed, boots, requests>>,
           mode' \in {"boot", "up", "panic"},
           page' \in [body : Settings \cup {None}, crc : Settings \cup {None}],
           lock' \in {"saver", "boot", None}, lock' = None <=> stage' = None,
           stage' \in {"erase", "body", "crc", None}, crc' \in Settings \cup {None},
           saver' \in {"idle", "fired", "saving", "saved"},
           lock' = "saver" <=> saver' = "saving",
           armed' \in BOOLEAN, lost' \subseteq {"failed", "dropped", "reset"},
           saved' \in Settings \cup {None}, intact' \in BOOLEAN, faults' \in 0..MaxFaults
    PROVE  TypeOK'
BY DEF TypeOK, settingsVars

LEMMA SaveType ==
    ASSUME TypeOK, Store \/ Load \/ PowerLoss \/ Saver
    PROVE  TypeOK'
<1>. DEFINE Page == [body : Settings \cup {None}, crc : Settings \cup {None}]
<1>0. /\ None \notin {"saver", "boot", "erase", "body", "crc"}
      /\ ZeroPassword \in Passwords /\ Default \in Settings
  BY SettingsAssumption
<1>1. CASE ErasePage
  <2>1. page' \in Page
    BY <1>1 DEF ErasePage, Blank
  <2>2. /\ stage' = "body" /\ intact' = FALSE /\ lock # None
        /\ UNCHANGED <<mode, settingsVars, lock, crc, armed, saver, prot, alarmed, lost, saved, bounds>>
    BY <1>0, <1>1 DEF ErasePage, TypeOK
  <2>3. /\ mode' \in {"boot", "up", "panic"} /\ crc' \in Settings \cup {None}
        /\ lock' \in {"saver", "boot"} /\ saver' \in {"idle", "fired", "saving", "saved"}
        /\ lock' = "saver" <=> saver' = "saving"
        /\ armed' \in BOOLEAN /\ lost' \subseteq {"failed", "dropped", "reset"}
        /\ saved' \in Settings \cup {None} /\ faults' \in 0..MaxFaults
    BY <2>2 DEF TypeOK, bounds
  <2>. QED
    BY <1>0, <2>1, <2>2, <2>3, SaveTyped DEF bounds
<1>2. CASE WriteBody
  <2>1. page' \in Page
    BY <1>2 DEF WriteBody, TypeOK
  <2>. QED
    BY <1>0, <1>2, <2>1 DEF WriteBody, TypeOK, settingsVars, bounds
<1>3. CASE WriteCrc
  <2>1. page' \in Page
    BY <1>3 DEF WriteCrc, TypeOK
  <2>2. /\ mode' \in {"boot", "up", "panic"} /\ lost' = {}
        /\ saver' \in {"idle", "fired", "saved"}
        /\ lock' = None /\ stage' = None
    BY <1>0, <1>3 DEF WriteCrc, EndStore, TypeOK
  <2>3. /\ UNCHANGED <<settingsVars, crc, armed, prot, alarmed, bounds>>
        /\ saved' = crc /\ intact' = TRUE
    BY <1>3 DEF WriteCrc
  <2>4. /\ crc \in Settings \cup {None} /\ armed \in BOOLEAN /\ faults \in 0..MaxFaults
    BY DEF TypeOK
  <2>. QED
    BY <1>0, <2>1, <2>2, <2>3, <2>4, SaveTyped DEF bounds
<1>4. CASE StoreFails
  <2>1. /\ mode' \in {"boot", "up", "panic"}
        /\ lost' \subseteq {"failed", "dropped", "reset"}
        /\ saver' \in {"idle", "fired", "saved"}
        /\ lock' = None /\ stage' = None
    BY <1>0, <1>4 DEF StoreFails, EndStore, TypeOK
  <2>2. faults' \in 0..MaxFaults
    BY <1>4, SettingsAssumption DEF StoreFails, TypeOK
  <2>3. UNCHANGED <<settingsVars, page, crc, armed, prot, alarmed, saved, intact, boots, requests>>
    BY <1>4 DEF StoreFails
  <2>4. /\ page \in Page /\ crc \in Settings \cup {None} /\ armed \in BOOLEAN
        /\ saved \in Settings \cup {None} /\ intact \in BOOLEAN
    BY DEF TypeOK
  <2>. QED
    BY <1>0, <2>1, <2>2, <2>3, <2>4, SaveTyped
<1>5. CASE Load
  <2>1. CASE Sealed
    <3>1. page.body \in Settings
      BY <2>1 DEF Sealed, TypeOK
    <3>. QED
      BY <1>0, <1>5, <2>1, <3>1 DEF Load, TypeOK, bounds
  <2>2. CASE ~Sealed
    BY <1>0, <1>5, <2>2 DEF Load, BeginStore, Free, TypeOK, bounds
  <2>. QED
    BY <2>1, <2>2
<1>6. CASE PowerLoss
  <2>1. /\ count' \in [Monitors -> 0..OverLimitCount] /\ boots' \in 0..MaxBoots
    BY <1>6, SettingsAssumption DEF PowerLoss, TypeOK
  <2>2. prot' \in [pc : {"idle"}, req : {None}, status : {"ok"}]
    BY <1>6 DEF PowerLoss
  <2>. QED
    BY <1>0, <1>6, <2>1, <2>2 DEF PowerLoss, TypeOK
<1>7. CASE Saver
  <2>1. /\ UNCHANGED <<settingsVars, page, saved, intact, prot, alarmed, bounds>>
        /\ mode' = mode /\ mode \in {"boot", "up", "panic"} /\ armed' \in BOOLEAN
    BY <1>7 DEF Saver, Fire, Save, ClearTimer, TypeOK, storeVars
  <2>2. /\ lock' \in {"saver", "boot", None} /\ (lock' = None <=> stage' = None)
        /\ stage' \in {"erase", "body", "crc", None} /\ crc' \in Settings \cup {None}
        /\ saver' \in {"idle", "fired", "saving"} /\ (lock' = "saver" <=> saver' = "saving")
    BY <1>0, <1>7 DEF Saver, Fire, Save, BeginStore, Free, ClearTimer, TypeOK, storeVars
  <2>3. lost' \subseteq {"failed", "dropped", "reset"}
    BY <1>7 DEF Saver, Fire, Save, ClearTimer, TypeOK
  <2>4. /\ page \in Page /\ faults \in 0..MaxFaults
        /\ saved \in Settings \cup {None} /\ intact \in BOOLEAN
    BY DEF TypeOK
  <2>. QED
    BY <2>1, <2>2, <2>3, <2>4, SaveTyped DEF bounds
<1>. QED
  BY <1>1, <1>2, <1>3, <1>4, <1>5, <1>6, <1>7 DEF Store

\* The two threads never touch the page: what they may change keeps its type.
LEMMA ThreadType ==
    ASSUME TypeOK, UNCHANGED <<mode, storeVars, saver, boots>>,
           work' \in Settings, current' \in Passwords,
           count' \in [Monitors -> 0..OverLimitCount],
           armed' \in BOOLEAN, alarmed' \in BOOLEAN,
           prot' \in [pc : {"idle", "verify", "update", "start", "fill", "password",
                            "startPassword", "reset"},
                      req : Requests \cup {None}, status : {"ok", "errors", "silent"}],
           lost' \subseteq {"failed", "dropped", "reset"},
           requests' \in 0..MaxRequests, faults' \in 0..MaxFaults
    PROVE  TypeOK'
BY DEF TypeOK, storeVars

\* A save that is asked for is armed, or it is noted that it was not.
LEMMA WritingStarted ==
    ASSUME TypeOK, NEW outcome, StartWriting(outcome)
    PROVE  /\ armed' \in BOOLEAN /\ lost' \subseteq {"failed", "dropped", "reset"}
           /\ faults' \in 0..MaxFaults
           /\ armed' \/ lost' # {}
<1>1. CASE StartTimer /\ UNCHANGED <<lost, faults>>
  BY <1>1 DEF TypeOK, StartTimer
<1>2. CASE /\ faults < MaxFaults /\ faults' = faults + 1
           /\ lost' = lost \cup {"failed"} /\ UNCHANGED armed
  <2>1. faults' \in 0..MaxFaults
    BY <1>2, SettingsAssumption DEF TypeOK
  <2>. QED
    BY <1>2, <2>1 DEF TypeOK
<1>. QED
  BY <1>1, <1>2 DEF StartWriting

LEMMA NextPart ==
    ASSUME TypeOK,
           NEW part \in {"idle", "verify", "update", "start", "fill", "password",
                         "startPassword", "reset"},
           NEW status \in {"ok", "errors", "silent"},
           Goto(part, status)
    PROVE  /\ prot' \in [pc : {"idle", "verify", "update", "start", "fill", "password",
                               "startPassword", "reset"},
                         req : Requests \cup {None}, status : {"ok", "errors", "silent"}]
           /\ prot'.pc = part /\ prot'.req = prot.req /\ prot'.status = status
BY DEF TypeOK, Goto

\* Of a request in hand the fields that its next part reads are there.
LEMMA RequestType ==
    ASSUME TypeOK, RequestInHand, prot.pc # "idle"
    PROVE  /\ prot.req \in Request
           /\ prot.pc = "update" =>
                /\ prot.req.write # None /\ prot.req.write.mt # BadTime
                /\ prot.req.write.limit # None => work.password = current
           /\ prot.pc = "password" => prot.req.password \in Passwords
<1>1. prot.req \in Request
  BY SettingsAssumption DEF RequestInHand
<1>2. prot.req.password \in Passwords \cup {None}
  BY <1>1 DEF Request
<1>. QED
  BY <1>1, <1>2 DEF RequestInHand, Denied, PasswordInvalid

LEMMA ProtobufType ==
    ASSUME TypeOK, RequestInHand, ProtobufThread
    PROVE  TypeOK' /\ RequestInHand'
<1>. DEFINE Typed == /\ prot' \in [pc : {"idle", "verify", "update", "start", "fill",
                                         "password", "startPassword", "reset"},
                                   req : Requests \cup {None},
                                   status : {"ok", "errors", "silent"}]
<1>0. /\ work \in Settings /\ current \in Passwords
      /\ count \in [Monitors -> 0..OverLimitCount]
      /\ armed \in BOOLEAN /\ alarmed \in BOOLEAN
      /\ prot.pc \in {"idle", "verify", "update", "start", "fill", "password",
                      "startPassword", "reset"}
      /\ prot.status \in {"ok", "errors", "silent"}
      /\ lost \subseteq {"failed", "dropped", "reset"}
      /\ requests \in 0..MaxRequests /\ faults \in 0..MaxFaults
  BY DEF TypeOK
<1>1. CASE Receive
  <2>1. PICK req \in Requests : prot' = [pc |-> FirstPart(req), req |-> req, status |-> "ok"]
    BY <1>1 DEF Receive
  <2>2. req \in Request
    BY SettingsAssumption
  <2>3. requests' \in 0..MaxRequests
    BY <1>0, <1>1, SettingsAssumption DEF Receive
  <2>4. Typed /\ RequestInHand'
    BY <2>1, <2>2, PartsOfRequest DEF RequestInHand
  <2>. QED
    BY <1>0, <1>1, <2>3, <2>4, ThreadType DEF Receive, settingsVars
<1>2. CASE Verify
  <2>1. /\ UNCHANGED <<mode, settingsVars, storeVars, armed, saver, alarmed, lost, bounds>>
        /\ prot.pc = "verify"
    BY <1>2 DEF Verify, At
  <2>2. PICK part \in {"update", "fill"}, status \in {"ok", "errors", "silent"} :
          /\ Goto(part, status)
          /\ part = "update" => ~Denied(prot.req.write)
    BY <1>0, <1>2 DEF Verify
  <2>3. Typed /\ prot'.pc = part /\ prot'.req = prot.req
    BY <2>2, NextPart
  <2>4. RequestInHand'
    BY <2>1, <2>2, <2>3 DEF RequestInHand, Denied, PasswordInvalid, settingsVars
  <2>. QED
    BY <1>0, <2>1, <2>3, <2>4, ThreadType DEF settingsVars, bounds
<1>3. CASE Update
  <2>1. /\ UNCHANGED <<mode, count, storeVars, armed, saver, alarmed, lost, bounds>>
        /\ prot.pc = "update"
    BY <1>3 DEF Update, At
  <2>2. work' \in Settings /\ current' \in Passwords
    <3>1. /\ prot.req \in Request /\ prot.req.write # None /\ prot.req.write.mt # BadTime
      BY <2>1, RequestType
    <3>2. OrOld(prot.req.write.entered, current) \in Passwords
      BY <1>0, <3>1, WrittenSettings DEF OrOld
    <3>3. [work EXCEPT !.mt = OrOld(prot.req.write.mt, @),
                       !.limit = OrOld(prot.req.write.limit, @)] \in Settings
      BY <1>0, <3>1, WrittenSettings
    <3>. QED
      BY <1>0, <1>3, <3>2, <3>3 DEF Update
  <2>3. PICK part \in {"start", "fill"}, status \in {"ok", "errors", "silent"} :
          Goto(part, status)
    BY <1>0, <1>3 DEF Update
  <2>4. Typed /\ prot'.pc = part /\ prot'.req = prot.req
    BY <2>3, NextPart
  <2>5. RequestInHand'
    BY <2>1, <2>4 DEF RequestInHand
  <2>. QED
    BY <1>0, <2>1, <2>2, <2>4, <2>5, ThreadType DEF bounds
<1>4. CASE RequestSave
  <2>1. /\ UNCHANGED <<mode, settingsVars, storeVars, saver, alarmed, boots, requests>>
        /\ prot.pc \in {"start", "startPassword"}
    BY <1>4 DEF RequestSave, At
  <2>2. prot.req \in Request
    BY <2>1, RequestType
  <2>3. PICK outcome \in {"ok", "errors"} :
          /\ StartWriting(outcome)
          /\ Goto(IF prot.pc = "start" THEN "fill" ELSE AfterPassword(prot.req),
                  IF outcome = "ok" THEN prot.status ELSE outcome)
    BY <1>4 DEF RequestSave
  <2>4. PICK part \in {"fill", "reset", "idle"}, status \in {"ok", "errors", "silent"} :
          Goto(part, status)
    BY <1>0, <2>2, <2>3, PartsOfRequest
  <2>5. Typed /\ prot'.pc = part /\ prot'.req = prot.req
    BY <2>4, NextPart
  <2>6. RequestInHand'
    BY <2>1, <2>5 DEF RequestInHand
  <2>7. /\ armed' \in BOOLEAN /\ lost' \subseteq {"failed", "dropped", "reset"}
        /\ faults' \in 0..MaxFaults
    BY <2>3, WritingStarted
  <2>. QED
    BY <1>0, <2>1, <2>5, <2>6, <2>7, ThreadType DEF settingsVars
<1>5. CASE FillSettings
  <2>1. /\ UNCHANGED <<mode, settingsVars, storeVars, armed, saver, alarmed, lost, bounds>>
        /\ prot.pc = "fill"
    BY <1>5 DEF FillSettings, At
  <2>2. prot.req \in Request
    BY <2>1, RequestType
  <2>3. PICK part \in {"password", "reset", "idle"}, status \in {"ok", "errors", "silent"} :
          /\ Goto(part, status)
          /\ part = "password" => prot.req.password # None
    BY <1>0, <1>5, <2>2, PartsOfRequest DEF FillSettings
  <2>4. Typed /\ prot'.pc = part /\ prot'.req = prot.req
    BY <2>3, NextPart
  <2>5. RequestInHand'
    BY <2>1, <2>3, <2>4 DEF RequestInHand
  <2>. QED
    BY <1>0, <2>1, <2>4, <2>5, ThreadType DEF settingsVars, bounds
<1>6. CASE ChangePassword
  <2>1. /\ UNCHANGED <<mode, count, storeVars, armed, saver, alarmed, lost, bounds>>
        /\ prot.pc = "password"
    BY <1>6 DEF ChangePassword, At
  <2>2. prot.req \in Request /\ prot.req.password \in Passwords
    BY <2>1, RequestType
  <2>3. work' \in Settings /\ current' \in Passwords
    BY <1>0, <1>6, <2>2 DEF ChangePassword, Settings
  <2>4. PICK part \in {"startPassword", "reset", "idle"},
             status \in {"ok", "errors", "silent"} :
          Goto(part, status)
    BY <1>0, <1>6, <2>2, PartsOfRequest DEF ChangePassword
  <2>5. Typed /\ prot'.pc = part /\ prot'.req = prot.req
    BY <2>4, NextPart
  <2>6. RequestInHand'
    BY <2>1, <2>5 DEF RequestInHand
  <2>. QED
    BY <1>0, <2>1, <2>3, <2>5, <2>6, ThreadType DEF bounds
<1>7. CASE ResetMonitoring
  <2>1. /\ UNCHANGED <<mode, current, count, storeVars, armed, saver, alarmed, bounds>>
        /\ prot.pc = "reset" /\ work' \in Settings
        /\ lost' \subseteq {"failed", "dropped", "reset"}
    BY <1>0, <1>7 DEF ResetMonitoring, At, Settings
  <2>2. PICK status \in {"ok", "errors", "silent"} : Goto("idle", status)
    BY <1>0, <1>7 DEF ResetMonitoring
  <2>3. Typed /\ prot'.pc = "idle"
    BY <2>2, NextPart
  <2>. QED
    BY <1>0, <2>1, <2>3, ThreadType DEF RequestInHand, bounds
<1>. QED
  BY <1>1, <1>2, <1>3, <1>4, <1>5, <1>6, <1>7 DEF ProtobufThread

LEMMA SensorType ==
    ASSUME TypeOK, RequestInHand, SensorThread
    PROVE  TypeOK' /\ RequestInHand'
<1>0. /\ work \in Settings /\ current \in Passwords
      /\ count \in [Monitors -> 0..OverLimitCount]
      /\ armed \in BOOLEAN /\ alarmed \in BOOLEAN
      /\ prot \in [pc : {"idle", "verify", "update", "start", "fill", "password",
                         "startPassword", "reset"},
                   req : Requests \cup {None}, status : {"ok", "errors", "silent"}]
      /\ lost \subseteq {"failed", "dropped", "reset"}
      /\ requests \in 0..MaxRequests /\ faults \in 0..MaxFaults
  BY DEF TypeOK
<1>1. CASE RaiseAlarm
  <2>1. /\ UNCHANGED <<mode, settingsVars, storeVars, saver, prot, boots, requests>>
        /\ alarmed' = FALSE
    BY <1>1 DEF RaiseAlarm
  <2>2. PICK outcome : StartWriting(outcome)
    BY <1>1 DEF RaiseAlarm
  <2>3. /\ armed' \in BOOLEAN /\ lost' \subseteq {"failed", "dropped", "reset"}
        /\ faults' \in 0..MaxFaults
    BY <2>2, WritingStarted
  <2>4. RequestInHand'
    BY <2>1 DEF RequestInHand, Denied, PasswordInvalid, settingsVars
  <2>. QED
    BY <1>0, <2>1, <2>3, <2>4, ThreadType DEF settingsVars
<1>2. ASSUME NEW m \in Monitors, NEW over \in BOOLEAN, CheckLimit(m, over)
      PROVE  TypeOK' /\ RequestInHand'
  <2>1. UNCHANGED <<mode, current, storeVars, armed, saver, prot, lost, bounds>>
    BY <1>2 DEF CheckLimit
  <2>2. count' \in [Monitors -> 0..OverLimitCount]
    <3>1. NextCount(m, over) \in 0..OverLimitCount
      BY <1>0, SettingsAssumption DEF NextCount
    <3>. QED
      BY <1>0, <1>2, <3>1 DEF CheckLimit
  <2>3. /\ work' \in Settings /\ work'.password = work.password
        /\ alarmed' \in BOOLEAN
    <3>1. CASE Detected(m, over)
      <4>1. work' = [work EXCEPT !.over = @ \cup {m}] /\ alarmed' = (m \notin work.over)
        BY <1>2, <3>1 DEF CheckLimit
      <4>. QED
        BY <1>0, <4>1 DEF Settings
    <3>2. CASE ~Detected(m, over)
      BY <1>0, <1>2, <3>2 DEF CheckLimit
    <3>. QED
      BY <3>1, <3>2
  <2>4. RequestInHand'
    BY <2>1, <2>3 DEF RequestInHand, Denied, PasswordInvalid
  <2>. QED
    BY <1>0, <2>1, <2>2, <2>3, <2>4, ThreadType DEF bounds
<1>. QED
  BY <1>1, <1>2 DEF SensorThread

-----------------------------------------------------------------------------
(* The invariant *)

LEMMA InitInv == Init => Inv
BY SettingsAssumption
   DEF Init, Inv, SaveIsFrozen, BootIsAlone, WholePage, RequestInHand, UnsavedHasCause, Up

\* A step that leaves the working copy, the page and the store alone, and does
\* not lose the save that was to come.
LEMMA QuietInv ==
    ASSUME Inv, RequestInHand', UNCHANGED <<mode, work, storeVars>>,
           mode # "up" => prot'.pc = "idle",
           SavePending => SavePending' \/ lost' # {},
           lost # {} => lost' # {}
    PROVE  Inv'
<1>1. SaveIsFrozen' /\ BootIsAlone' /\ WholePage'
  BY DEF Inv, SaveIsFrozen, BootIsAlone, WholePage, storeVars
<1>2. UnsavedHasCause'
  BY DEF Inv, UnsavedHasCause, Up, Sealed, storeVars
<1>. QED
  BY <1>1, <1>2 DEF Inv

\* A step of the two threads that changes the working copy has the mutex, and
\* leaves a save to come or the reason why there is none.
LEMMA ChangeInv ==
    ASSUME TypeOK, Inv, RequestInHand', UNCHANGED <<mode, storeVars>>, Up, Free,
           SavePending' \/ lost' # {}
    PROVE  Inv'
<1>1. stage = None
  BY DEF TypeOK, Free
<1>2. SaveIsFrozen' /\ BootIsAlone' /\ WholePage'
  BY <1>1, SettingsAssumption DEF Inv, SaveIsFrozen, BootIsAlone, WholePage, Up, storeVars
<1>. QED
  BY <1>2 DEF Inv, UnsavedHasCause

LEMMA StoreInv ==
    ASSUME TypeOK, Inv, Store
    PROVE  Inv'
<1>0. /\ None \notin Settings \cup {"saver", "boot", "erase", "body", "crc"}
      /\ work \in Settings /\ (lock = "saver" <=> saver = "saving")
      /\ lock \in {"saver", "boot", None} /\ (lock = None <=> stage = None)
      /\ page \in [body : Settings \cup {None}, crc : Settings \cup {None}]
  BY SettingsAssumption DEF TypeOK
<1>1. CASE ErasePage
  <2>1. /\ stage = "erase" /\ stage' = "body" /\ intact' = FALSE
        /\ UNCHANGED <<mode, work, current, lock, crc, saver, prot, lost>>
    BY <1>1 DEF ErasePage, settingsVars
  <2>2. SaveIsFrozen' /\ BootIsAlone' /\ WholePage' /\ RequestInHand'
    BY <1>0, <2>1 DEF Inv, SaveIsFrozen, BootIsAlone, WholePage, RequestInHand,
                      Denied, PasswordInvalid
  <2>3. UnsavedHasCause'
    BY <1>0, <2>1 DEF Inv, BootIsAlone, UnsavedHasCause, SavePending, Up
  <2>. QED
    BY <2>2, <2>3 DEF Inv
<1>2. CASE WriteBody
  <2>1. /\ stage = "body" /\ stage' = "crc" /\ page'.body = work /\ intact = FALSE
        /\ UNCHANGED <<mode, work, current, lock, crc, saver, prot, lost, intact>>
    BY <1>0, <1>2 DEF WriteBody, settingsVars, Inv, WholePage, TypeOK
  <2>2. SaveIsFrozen' /\ BootIsAlone' /\ WholePage' /\ RequestInHand'
    BY <1>0, <2>1 DEF Inv, SaveIsFrozen, BootIsAlone, WholePage, RequestInHand,
                      Denied, PasswordInvalid
  <2>3. UnsavedHasCause'
    BY <1>0, <2>1 DEF Inv, BootIsAlone, UnsavedHasCause, SavePending, Up
  <2>. QED
    BY <2>2, <2>3 DEF Inv
<1>3. CASE WriteCrc
  <2>1. /\ stage = "crc" /\ stage' = None /\ lock' = None /\ saved' = crc /\ intact' = TRUE
        /\ page' = [page EXCEPT !.crc = crc] /\ mode' \in {mode, "up"}
        /\ UNCHANGED <<work, current, crc, prot>>
    BY <1>3 DEF WriteCrc, EndStore, settingsVars
  <2>2. crc = work /\ page' = [body |-> work, crc |-> work]
    BY <1>0, <2>1 DEF Inv, SaveIsFrozen
  <2>3. SaveIsFrozen' /\ BootIsAlone' /\ WholePage' /\ RequestInHand'
    BY <1>0, <2>1, <2>2 DEF Inv, SaveIsFrozen, BootIsAlone, WholePage, RequestInHand,
                            Denied, PasswordInvalid
  <2>4. UnsavedHasCause'
    BY <1>0, <2>1, <2>2 DEF UnsavedHasCause, Sealed
  <2>. QED
    BY <2>3, <2>4 DEF Inv
<1>4. CASE StoreFails
  <2>1. /\ stage' = None /\ lock' = None /\ lost' # {}
        /\ mode' = (IF lock = "boot" THEN "panic" ELSE mode)
        /\ UNCHANGED <<work, current, page, crc, saved, intact, prot>>
    BY <1>4 DEF StoreFails, EndStore, settingsVars
  <2>2. SaveIsFrozen' /\ BootIsAlone' /\ WholePage' /\ RequestInHand'
    BY <1>0, <2>1 DEF Inv, SaveIsFrozen, BootIsAlone, WholePage, RequestInHand,
                      Denied, PasswordInvalid
  <2>. QED
    BY <2>1, <2>2 DEF Inv, UnsavedHasCause
<1>. QED
  BY <1>1, <1>2, <1>3, <1>4 DEF Store

LEMMA LoadInv ==
    ASSUME TypeOK, Inv, Load
    PROVE  Inv'
<1>0. /\ None \notin {"saver", "boot", "erase", "body", "crc"}
      /\ stage = None /\ prot.pc = "idle"
      /\ UNCHANGED <<current, page, saved, intact, prot>>
  BY SettingsAssumption DEF TypeOK, Inv, BootIsAlone, Load, Free
<1>1. CASE Sealed
  <2>1. work' = page.body /\ mode' = "up" /\ UNCHANGED <<lock, stage, crc>> /\ lock = None
    BY <1>1 DEF Load, Free
  <2>. QED
    BY <1>0, <1>1, <2>1 DEF Inv, SaveIsFrozen, BootIsAlone, WholePage, RequestInHand,
                            UnsavedHasCause, Sealed
<1>2. CASE ~Sealed
  <2>1. /\ work' = Default /\ crc' = Default /\ lock' = "boot" /\ stage' = "erase"
        /\ mode' = "boot"
    BY <1>2 DEF Load, BeginStore
  <2>. QED
    BY <1>0, <2>1 DEF Inv, SaveIsFrozen, BootIsAlone, WholePage, RequestInHand,
                      UnsavedHasCause, Up
<1>. QED
  BY <1>1, <1>2

LEMMA PowerLossInv ==
    ASSUME Inv, PowerLoss
    PROVE  Inv'
<1>1. /\ mode' = "boot" /\ lock' = None /\ stage' = None /\ prot'.pc = "idle"
      /\ UNCHANGED <<page, saved, intact>>
  BY DEF PowerLoss
<1>. QED
  BY <1>1, SettingsAssumption
     DEF Inv, SaveIsFrozen, BootIsAlone, WholePage, RequestInHand, UnsavedHasCause, Up

LEMMA SaverInv ==
    ASSUME TypeOK, Inv, Saver
    PROVE  Inv'
<1>0. RequestInHand'
  <2>1. UNCHANGED <<work, current, prot>>
    BY DEF Saver, Fire, Save, ClearTimer, settingsVars
  <2>. QED
    BY <2>1 DEF Inv, RequestInHand, Denied, PasswordInvalid
<1>1. CASE Fire
  <2>1. UNCHANGED <<mode, work, storeVars, prot, lost>> /\ SavePending'
    BY <1>1 DEF Fire, SavePending, settingsVars
  <2>. QED
    BY <1>0, <2>1, QuietInv DEF Inv, BootIsAlone
<1>2. CASE Save
  <2>1. /\ mode = "up" /\ saver' = "saving" /\ lock' = "saver" /\ stage' = "erase"
        /\ crc' = work /\ UNCHANGED <<mode, work, page, saved, intact, prot>>
    BY <1>2 DEF Save, BeginStore, Up, settingsVars
  <2>. QED
    BY <1>0, <2>1 DEF Inv, SaveIsFrozen, BootIsAlone, WholePage, UnsavedHasCause, SavePending
<1>3. CASE ClearTimer
  <2>1. /\ saver = "saved" /\ UNCHANGED <<mode, work, storeVars, prot, alarmed>>
        /\ lost' = (IF armed THEN lost \cup {"dropped"} ELSE lost)
    BY <1>3 DEF ClearTimer, settingsVars
  <2>2. SavePending => SavePending' \/ lost' # {}
    BY <2>1 DEF SavePending
  <2>3. lost # {} => lost' # {}
    BY <2>1
  <2>. QED
    BY <1>0, <2>1, <2>2, <2>3, QuietInv DEF Inv, BootIsAlone
<1>. QED
  BY <1>1, <1>2, <1>3 DEF Saver

LEMMA ProtobufInv ==
    ASSUME TypeOK, Inv, ProtobufThread
    PROVE  Inv'
<1>0. RequestInHand' /\ work \in Settings
  BY ProtobufType DEF Inv, TypeOK
<1>1. mode = "up" /\ mode' = mode
  BY DEF ProtobufThread, Receive, Verify, Update, RequestSave, FillSettings, ChangePassword,
         ResetMonitoring, At, Up
<1>2. CASE Receive \/ Verify \/ FillSettings
  <2>1. /\ UNCHANGED <<mode, work, storeVars, armed, saver, alarmed, lost>>
        /\ prot.pc \in {"idle", "verify", "fill"}
    BY <1>2 DEF Receive, Verify, FillSettings, At, settingsVars
  <2>. QED
    BY <1>0, <1>1, <2>1, QuietInv DEF SavePending
<1>3. CASE RequestSave
  <2>1. UNCHANGED <<mode, work, storeVars, saver, alarmed>>
    BY <1>3 DEF RequestSave, settingsVars
  <2>2. armed' \/ lost' # {}
    BY <1>3, WritingStarted DEF RequestSave
  <2>3. lost # {} => lost' # {}
    BY <1>3 DEF RequestSave, StartWriting
  <2>. QED
    BY <1>0, <1>1, <2>1, <2>2, <2>3, QuietInv DEF SavePending
<1>4. CASE Update
  <2>1. /\ prot.pc = "update" /\ UNCHANGED <<storeVars, armed, saver, alarmed, lost>>
    BY <1>4 DEF Update, At
  <2>2. /\ prot.req \in Request /\ prot.req.write # None /\ prot.req.write.mt # BadTime
    BY <2>1, RequestType DEF Inv
  <2>3. CASE Free /\ NeedWrite(prot.req.write)
    <3>1. prot'.pc = "start"
      BY <1>4, <2>3, NextPart DEF Update, TimedOut, Goto, TypeOK
    <3>. QED
      BY <1>0, <1>1, <2>1, <2>3, <3>1, ChangeInv DEF SavePending, Up
  <2>4. CASE Free /\ ~NeedWrite(prot.req.write)
    <3>1. work' = [work EXCEPT !.mt = OrOld(prot.req.write.mt, @),
                               !.limit = OrOld(prot.req.write.limit, @)]
      BY <1>4, <2>4 DEF Update, TimedOut
    <3>2. work' = work
      BY <1>0, <2>2, <2>4, <3>1, WrittenSettings
    <3>. QED
      BY <1>0, <1>1, <2>1, <3>2, QuietInv DEF SavePending
  <2>5. CASE ~Free
    <3>1. work' = work
      BY <1>4, <2>5 DEF Update, MayEnter
    <3>. QED
      BY <1>0, <1>1, <2>1, <3>1, QuietInv DEF SavePending
  <2>. QED
    BY <2>3, <2>4, <2>5
<1>5. CASE ChangePassword
  <2>1. prot.pc = "password" /\ UNCHANGED <<storeVars, armed, saver, alarmed, lost>>
    BY <1>5 DEF ChangePassword, At
  <2>2. CASE work' = work
    BY <1>0, <1>1, <2>1, <2>2, QuietInv DEF SavePending
  <2>3. CASE work' # work
    <3>1. Free /\ prot'.pc = "startPassword"
      BY <1>5, <2>3, NextPart DEF ChangePassword, MayEnter, Goto, TypeOK
    <3>. QED
      BY <1>0, <1>1, <2>1, <3>1, ChangeInv DEF SavePending, Up
  <2>. QED
    BY <2>2, <2>3
<1>6. CASE ResetMonitoring
  <2>1. prot.pc = "reset" /\ UNCHANGED <<storeVars, armed, saver, alarmed>>
    BY <1>6 DEF ResetMonitoring, At
  <2>2. CASE work' = work
    <3>1. lost # {} => lost' # {}
      BY <1>6 DEF ResetMonitoring
    <3>. QED
      BY <1>0, <1>1, <2>1, <2>2, <3>1, QuietInv DEF SavePending
  <2>3. CASE work' # work
    <3>1. Free /\ work' = [work EXCEPT !.over = {}]
      BY <1>6, <2>3 DEF ResetMonitoring, MayEnter
    <3>2. work.over # {}
      BY <1>0, <2>3, <3>1 DEF Settings
    <3>3. lost' # {}
      BY <1>6, <2>3, <3>2 DEF ResetMonitoring
    <3>. QED
      BY <1>0, <1>1, <2>1, <3>1, <3>3, ChangeInv DEF Up
  <2>. QED
    BY <2>2, <2>3
<1>. QED
  BY <1>2, <1>3, <1>4, <1>5, <1>6 DEF ProtobufThread

LEMMA SensorInv ==
    ASSUME TypeOK, Inv, SensorThread
    PROVE  Inv'
<1>0. RequestInHand' /\ work \in Settings
  BY SensorType DEF Inv, TypeOK
<1>1. CASE RaiseAlarm
  <2>1. UNCHANGED <<mode, work, storeVars, saver, prot>> /\ mode = "up"
    BY <1>1 DEF RaiseAlarm, Up, settingsVars
  <2>2. armed' \/ lost' # {}
    BY <1>1, WritingStarted DEF RaiseAlarm
  <2>3. lost # {} => lost' # {}
    BY <1>1 DEF RaiseAlarm, StartWriting
  <2>. QED
    BY <1>0, <2>1, <2>2, <2>3, QuietInv DEF SavePending
<1>2. ASSUME NEW m \in Monitors, NEW over \in BOOLEAN, CheckLimit(m, over)
      PROVE  Inv'
  <2>1. /\ Up /\ Free /\ ~alarmed
        /\ UNCHANGED <<mode, current, storeVars, armed, saver, prot, lost>>
    BY <1>2 DEF CheckLimit, MayEnter
  <2>2. CASE work' = work
    BY <1>0, <2>1, <2>2, QuietInv DEF SavePending, Up
  <2>3. CASE work' # work
    <3>1. work' = [work EXCEPT !.over = @ \cup {m}] /\ alarmed' = (m \notin work.over)
      BY <1>2, <2>3 DEF CheckLimit
    <3>2. m \notin work.over
      BY <1>0, <2>3, <3>1 DEF Settings
    <3>. QED
      BY <1>0, <2>1, <3>1, <3>2, ChangeInv DEF SavePending
  <2>. QED
    BY <2>2, <2>3
<1>. QED
  BY <1>1, <1>2 DEF SensorThread

LEMMA StepInv == TypeOK /\ Inv /\ [Next]_vars => TypeOK' /\ Inv'
<1>. SUFFICES ASSUME TypeOK, Inv, [Next]_vars
              PROVE  TypeOK' /\ Inv'
  OBVIOUS
<1>1. CASE Store
  BY <1>1, SaveType, StoreInv
<1>2. CASE Load
  BY <1>2, SaveType, LoadInv
<1>3. CASE PowerLoss
  BY <1>3, SaveType, PowerLossInv
<1>4. CASE Saver
  BY <1>4, SaveType, SaverInv
<1>5. CASE ProtobufThread
  BY <1>5, ProtobufType, ProtobufInv DEF Inv
<1>6. CASE SensorThread
  BY <1>6, SensorType, SensorInv DEF Inv
<1>7. CASE UNCHANGED vars
  <2>1. UNCHANGED <<mode, work, storeVars, armed, saver, prot, alarmed, lost>>
    BY <1>7 DEF vars, settingsVars
  <2>2. RequestInHand'
    BY <1>7 DEF vars, settingsVars, Inv, RequestInHand, Denied, PasswordInvalid
  <2>3. Inv'
    BY <2>1, <2>2, QuietInv DEF SavePending, Inv, BootIsAlone
  <2>4. TypeOK'
    BY <1>7, ThreadType DEF vars, settingsVars, bounds, TypeOK
  <2>. QED
    BY <2>3, <2>4
<1>. QED
  BY <1>1, <1>2, <1>3, <1>4, <1>5, <1>6, <1>7 DEF Next

LEMMA Invariant == Spec => [](TypeOK /\ Inv)
BY InitType, InitInv, StepInv, PTL DEF Spec

-----------------------------------------------------------------------------
(* The properties *)

\* The state keeps its types for every OverLimitCount and every set of values,
\* and SETTINGS is held by the timer callback exactly while its save runs
\* (settings_save, FlasRWPolcy::store).
THEOREM SettingsType == Spec => []TypeOK
BY Invariant, PTL

\* For any set of monitors and requests and any number of power losses, the
\* working copy is on the page, or a save is to come, or there is one of the
\* three known reasons why not (start_writing_settings, reset_monitoring_flags).
THEOREM UnsavedIsExplained == Spec => []UnsavedHasCause
<1>1. Inv => UnsavedHasCause
  BY DEF Inv
<1>. QED
  BY Invariant, <1>1, PTL

\* A boot whose page no save was cut on loads what was last saved, wherever in
\* the earlier saves the power went (SettingsManager::new, FlasRWPolcy::load).
THEOREM SavedIsLoaded == Spec => RestartKeepsSaved
<1>1. TypeOK /\ Inv => (Load /\ intact /\ saved # None => work' = saved /\ mode' = "up")
  <2>. SUFFICES ASSUME TypeOK, Inv, Load, intact, saved # None
                PROVE  work' = saved /\ mode' = "up"
    OBVIOUS
  <2>1. page = [body |-> saved, crc |-> saved]
    BY DEF Inv, WholePage
  <2>2. Sealed
    BY <2>1 DEF Sealed
  <2>. QED
    BY <2>1, <2>2 DEF Load
<1>. QED
  BY Invariant, <1>1, PTL DEF RestartKeepsSaved

\* A step of the running system that changes a protected value or the password
\* is taken with the password entered, however the requests, the saves and the
\* latches interleave (verify_parameters, update_settings, change_password).
THEOREM ProtectedIsGuarded == Spec => ProtectedNeedsPassword
<1>1. TypeOK /\ Inv /\ [Next]_vars =>
        (Up /\ (work'.limit # work.limit \/ work'.password # work.password)
           => work.password = current)
  <2>. SUFFICES ASSUME TypeOK, Inv, [Next]_vars, Up,
                       work'.limit # work.limit \/ work'.password # work.password
                PROVE  work.password = current
    OBVIOUS
  <2>0. work \in Settings /\ work' # work
    BY DEF TypeOK
  <2>1. CASE Update
    <3>1. prot.pc = "update"
      BY <2>1 DEF Update, At
    <3>2. prot.req \in Request /\ prot.req.write # None /\ prot.req.write.mt # BadTime
      BY <3>1, RequestType DEF Inv
    <3>3. work' = [work EXCEPT !.mt = OrOld(prot.req.write.mt, @),
                               !.limit = OrOld(prot.req.write.limit, @)]
      BY <2>0, <2>1 DEF Update
    <3>4. prot.req.write.limit # None
      BY <2>0, <3>2, <3>3, WrittenSettings
    <3>. QED
      BY <3>1, <3>4, RequestType DEF Inv
  <2>2. CASE ChangePassword
    BY <2>0, <2>2 DEF ChangePassword, PasswordInvalid
  <2>3. CASE ResetMonitoring
    BY <2>0, <2>3 DEF ResetMonitoring, Settings
  <2>4. ASSUME NEW m \in Monitors, NEW over \in BOOLEAN, CheckLimit(m, over)
        PROVE  FALSE
    BY <2>0, <2>4 DEF CheckLimit, Settings
  <2>5. ~Load /\ ~PowerLoss
    BY <2>0 DEF Load, PowerLoss, Up
  <2>6. ~Store
    BY <2>0 DEF Store, ErasePage, WriteBody, WriteCrc, StoreFails, settingsVars
  <2>7. ~Saver /\ ~RaiseAlarm
    BY <2>0 DEF Saver, Fire, Save, ClearTimer, RaiseAlarm, settingsVars
  <2>8. ~(Receive \/ Verify \/ RequestSave \/ FillSettings)
    BY <2>0 DEF Receive, Verify, RequestSave, FillSettings, settingsVars
  <2>9. vars' # vars
    BY <2>0 DEF vars, settingsVars
  <2>. QED
    BY <2>1, <2>2, <2>3, <2>4, <2>5, <2>6, <2>7, <2>8, <2>9
       DEF Next, ProtobufThread, SensorThread
<1>. QED
  BY Invariant, <1>1, PTL DEF ProtectedNeedsPassword, Spec

=============================================================================

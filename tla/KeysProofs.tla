----------------------------- MODULE KeysProofs -----------------------------
(***************************************************************************)
(* What is proved of Settings and Keys for every number of requests, hosts *)
(* and secrets, whatever forms are submitted.                              *)
(***************************************************************************)
EXTENDS Keys, TLAPS

(* What the operators on fields and lines return. *)
LEMMA MergeTyped ==
    ASSUME NEW f \in Settable
    PROVE  /\ \A old \in Settable : Merge(old, f) \in Settable
           /\ \A old \in Fields : Merge(old, f) \in Fields
           /\ \A old \in Fields : old.host # None => Merge(old, f).host # None
  BY SettingsAssumption DEF Merge, Keep, Settable, Fields

LEMMA LoadedTyped == \A lines \in Contents : Loaded(lines) \in Fields
  <1>1. \A v \in Secrets \cup {None} : Read(v) \in Secrets \cup {None}
    BY SettingsAssumption DEF Read
  <1>2. \A v \in Secrets \cup {None}, p \in Secrets : OrElse(v, p) \in Secrets
    BY DEF OrElse
  <1>3. ASSUME NEW lines \in Contents PROVE Loaded(lines) \in Fields
    <2>1. /\ lines.host \in Hosts \cup {None}
          /\ Read(lines.pass) \in Secrets \cup {None}
          /\ Read(lines.ssh) \in Secrets \cup {None}
      BY <1>1 DEF Contents, Settable
    <2>2. OrElse(Read(lines.pass), admin) \in Secrets
      BY <1>2, <2>1, SettingsAssumption
    <2>3. OrElse(Read(lines.ssh), OrElse(Read(lines.pass), admin)) \in Secrets
      BY <1>2, <2>1, <2>2
    <2> QED
      BY <2>1, <2>2, <2>3 DEF Loaded, Fields
  <1> QED
    BY <1>3

LEMMA DataTyped ==
    /\ Empty \in Settable /\ Fields \subseteq Settable
    /\ \A f \in Settable : Persisted(f) \in Settable
    /\ \A a, b \in Settable : Mixtures(a, b) \subseteq Settable
  BY SettingsAssumption DEF Empty, Settable, Fields, Persisted, Mixtures

-----------------------------------------------------------------------------
(* The settings alone: types, with a host wherever a client is built.      *)
SettingsInv ==
    /\ SettingsTypeOK
    /\ \A s \in Savers : spc[s] = "build" => work[s] \in Fields /\ work[s].host # None
                                            /\ fields.host # None
    /\ kvm # None => kvm.host # None
    /\ fields.host = None => kvm = None

(* A step of a save other than its first two changes neither the fields    *)
(* nor the client, and leaves no save at "build" that was not.             *)
Later(s) ==
    \/ NothingToPersist(s) \/ ReadEnv(s) \/ ReadFails(s) \/ Truncate(s)
    \/ OpenFails(s) \/ Write(s) \/ WriteFails(s)

LEMMA LaterSteps ==
    ASSUME SettingsTypeOK, NEW s \in Savers, Later(s)
    PROVE  /\ UNCHANGED <<fields, kvm, clientDue>>
           /\ spc[s] \in {"open", "write", "written"}
           /\ \E to \in {"idle", "write", "written"} : spc' = [spc EXCEPT ![s] = to]
           /\ \E w \in Settable : work' = [work EXCEPT ![s] = w]
           /\ form' \in {form, [form EXCEPT ![s] = Empty]}
           /\ env' \in Contents /\ saved' \in Contents \cup {None}
           /\ spc'[s] = "idle" => met' = met \ {s}
           /\ spc'[s] # "idle" => met' = met
  <1>0. work[s] \in Settable /\ form[s] \in Settable /\ env \in Settable
    BY DEF SettingsTypeOK, Contents
  <1>1. CASE ReadEnv(s)
    <2>1. Merge(env, Persisted(form[s])) \in Settable
      BY <1>0, DataTyped, MergeTyped
    <2> QED
      BY <1>0, <1>1, <2>1 DEF ReadEnv, SettingsTypeOK
  <1>2. CASE Truncate(s)
    <2>1. work' = [work EXCEPT ![s] = work[s]]
      BY <1>2 DEF Truncate, SettingsTypeOK
    <2> QED
      BY <1>0, <1>2, <2>1, DataTyped DEF Truncate, SettingsTypeOK, Contents
  <1>3. CASE NothingToPersist(s) \/ ReadFails(s) \/ OpenFails(s) \/ Write(s) \/ WriteFails(s)
    <2>0. saved # None => Merge(saved, Persisted(form[s])) \in Contents
      BY <1>0, DataTyped, MergeTyped DEF SettingsTypeOK, Contents
    <2>1. /\ Answer(s) /\ spc[s] \in {"open", "write", "written"}
          /\ saved' \in Contents \cup {None}
      BY <1>3, <2>0 DEF NothingToPersist, ReadFails, OpenFails, Write, WriteFails, SettingsTypeOK
    <2>2. env' \in Contents
      BY <1>0, <1>3, DataTyped
         DEF NothingToPersist, ReadFails, OpenFails, Write, WriteFails, Contents
    <2> QED
      BY <1>0, <2>1, <2>2, DataTyped DEF Answer, SettingsTypeOK
  <1> QED
    BY <1>1, <1>2, <1>3 DEF Later

(* SettingsInv is inductive. *)
LEMMA SettingsInductive == SettingsInv /\ [SettingsNext]_settingsVars => SettingsInv'
  <1> SUFFICES ASSUME SettingsInv, [SettingsNext]_settingsVars PROVE SettingsInv'
    OBVIOUS
  <1> USE DEF SettingsInv
  <1>1. CASE UNCHANGED settingsVars
    BY <1>1 DEF settingsVars, SettingsTypeOK
  <1>2. CASE Restart
    <2>0. env' \in Contents /\ saved' \in Contents \cup {None}
      BY <1>2, SettingsAssumption DEF Restart, SettingsTypeOK
    <2>1. fields' \in Fields /\ kvm' = ClientOf(fields')
      BY <1>2, <2>0, LoadedTyped DEF Restart
    <2>2. /\ spc' \in [Savers -> {"idle"}] /\ form' \in [Savers -> Settable]
          /\ work' \in [Savers -> Settable]
      BY <1>2, DataTyped DEF Restart, NoSave, NoData
    <2> QED
      BY <1>2, <2>0, <2>1, <2>2, SettingsAssumption DEF Restart, SettingsTypeOK, ClientOf
  <1>3. ASSUME NEW s \in Savers, SaveFields(s) PROVE SettingsInv'
    <2>1. PICK f \in Forms : fields' = Merge(fields, f) /\ form' = [form EXCEPT ![s] = f]
      BY <1>3 DEF SaveFields
    <2>2. f \in Settable /\ fields' \in Fields /\ (fields.host # None => fields'.host # None)
      BY <2>1, MergeTyped, SettingsAssumption DEF SettingsTypeOK
    <2>3. fields' \in Settable
      BY <2>2, DataTyped
    <2>4. /\ work' = [work EXCEPT ![s] = fields']
          /\ spc' = [spc EXCEPT ![s] = IF fields'.host = None THEN "open" ELSE "build"]
          /\ met' \subseteq Savers /\ clientDue' \in BOOLEAN /\ saved' \in Contents \cup {None}
          /\ UNCHANGED <<kvm, env>>
      BY <1>3 DEF SaveFields, SettingsTypeOK, Saving
    <2>5. SettingsTypeOK'
      BY <2>1, <2>2, <2>3, <2>4 DEF SettingsTypeOK
    <2>6. \A t \in Savers : spc'[t] = "build" => work'[t] \in Fields /\ work'[t].host # None
                                              /\ fields'.host # None
      BY <2>2, <2>4 DEF SettingsTypeOK
    <2> QED
      BY <2>2, <2>4, <2>5, <2>6
  <1>4. ASSUME NEW s \in Savers, BuildClient(s) PROVE SettingsInv'
    <2>1. /\ spc[s] = "build" /\ kvm' = work[s] /\ clientDue' = (s \in met)
          /\ spc' = [spc EXCEPT ![s] = "open"]
          /\ UNCHANGED <<fields, env, form, work, met, saved>>
      BY <1>4 DEF BuildClient
    <2>2. SettingsTypeOK'
      BY <2>1 DEF SettingsTypeOK
    <2> QED
      BY <2>1, <2>2 DEF SettingsTypeOK
  <1>5. ASSUME NEW s \in Savers, Later(s) PROVE SettingsInv'
    <2>1. PICK to \in {"idle", "write", "written"} : spc' = [spc EXCEPT ![s] = to]
      BY <1>5, LaterSteps
    <2>2. PICK w \in Settable : work' = [work EXCEPT ![s] = w]
      BY <1>5, LaterSteps
    <2>3. /\ UNCHANGED <<fields, kvm, clientDue>> /\ env' \in Contents
          /\ form' \in {form, [form EXCEPT ![s] = Empty]} /\ saved' \in Contents \cup {None}
      BY <1>5, LaterSteps
    <2>4. spc'[s] = to
      BY <2>1 DEF SettingsTypeOK
    <2>5. met' \in {met, met \ {s}}
      BY <1>5, <2>4, LaterSteps
    <2>6. SettingsTypeOK'
      BY <2>1, <2>2, <2>3, <2>5, DataTyped DEF SettingsTypeOK
    <2>7. \A t \in Savers : spc'[t] = "build" => t # s /\ spc[t] = "build"
      BY <2>1 DEF SettingsTypeOK
    <2>8. \A t \in Savers : t # s => work'[t] = work[t]
      BY <2>2 DEF SettingsTypeOK
    <2> QED
      BY <2>3, <2>6, <2>7, <2>8
  <1> QED
    BY <1>1, <1>2, <1>3, <1>4, <1>5 DEF SettingsNext, SaveStep, Later

-----------------------------------------------------------------------------
(* A save that has met no other is the only one, and the snapshot it works *)
(* on is still what the fields are.                                        *)
SoloInv ==
    /\ met \subseteq Saving
    /\ \A s \in Saving \ met : Saving = {s}
    /\ \A s \in Saving \ met : spc[s] = "build" => work[s] = fields

ClientInv == SettingsInv /\ SoloInv /\ ClientCurrent

(* ClientInv is inductive. *)
LEMMA ClientInductive == ClientInv /\ [SettingsNext]_settingsVars => ClientInv'
  <1> SUFFICES ASSUME ClientInv, [SettingsNext]_settingsVars PROVE SoloInv' /\ ClientCurrent'
    BY SettingsInductive DEF ClientInv
  <1> USE DEF ClientInv
  <1>0. SettingsTypeOK /\ SoloInv
    BY DEF SettingsInv
  <1>1. CASE UNCHANGED settingsVars
    BY <1>1 DEF settingsVars, SoloInv, ClientCurrent, Saving
  <1>2. CASE Restart
    <2>1. Saving' = {} /\ met' = {}
      BY <1>2 DEF Restart, NoSave, Saving
    <2> QED
      BY <1>2, <2>1 DEF Restart, SoloInv, ClientCurrent
  <1>3. ASSUME NEW s \in Savers, SaveFields(s) PROVE SoloInv' /\ ClientCurrent'
    <2>1. /\ spc[s] = "idle" /\ kvm' = kvm
          /\ spc' = [spc EXCEPT ![s] = IF fields'.host = None THEN "open" ELSE "build"]
          /\ work' = [work EXCEPT ![s] = fields']
      BY <1>3 DEF SaveFields
    <2>2. Saving' = Saving \cup {s} /\ s \notin Saving
      BY <1>0, <2>1 DEF Saving, SettingsTypeOK
    <2>3. CASE Saving = {}
      <3>1. met' = {} /\ Saving' = {s}
        BY <1>0, <1>3, <2>2, <2>3 DEF SaveFields, SoloInv
      <3>2. SoloInv'
        BY <1>0, <2>1, <3>1 DEF SoloInv, SettingsTypeOK
      <3>3. CASE fields'.host = None
        <4>1. fields.host = None /\ kvm = None
          <5>1. PICK f \in Forms : fields' = Merge(fields, f)
            BY <1>3 DEF SaveFields
          <5> QED
            BY <1>0, <3>3, <5>1, MergeTyped, SettingsAssumption DEF SettingsInv, SettingsTypeOK
        <4> QED
          BY <2>1, <3>2, <3>3, <4>1 DEF ClientCurrent, ClientOf
      <3>4. CASE fields'.host # None
        <4>1. spc'[s] = "build"
          BY <1>0, <2>1, <3>4 DEF SettingsTypeOK
        <4> QED
          BY <3>2, <4>1 DEF ClientCurrent
      <3> QED
        BY <3>3, <3>4
    <2>4. CASE Saving # {}
      BY <1>3, <2>2, <2>4 DEF SaveFields, SoloInv, ClientCurrent
    <2> QED
      BY <2>3, <2>4
  <1>4. ASSUME NEW s \in Savers, BuildClient(s) PROVE SoloInv' /\ ClientCurrent'
    <2>1. /\ spc[s] = "build" /\ kvm' = work[s] /\ clientDue' = (s \in met)
          /\ spc' = [spc EXCEPT ![s] = "open"] /\ UNCHANGED <<fields, work, met>>
      BY <1>4 DEF BuildClient
    <2>2. Saving' = Saving /\ s \in Saving
      BY <1>0, <2>1 DEF Saving, SettingsTypeOK
    <2>3. \A t \in Savers : spc'[t] = "build" => spc[t] = "build"
      BY <1>0, <2>1 DEF SettingsTypeOK
    <2>4. SoloInv'
      BY <1>0, <2>1, <2>2, <2>3 DEF SoloInv, Saving
    <2>5. s \notin met => kvm' = ClientOf(fields')
      BY <1>0, <2>1, <2>2 DEF SoloInv, SettingsInv, ClientOf
    <2> QED
      BY <2>1, <2>4, <2>5 DEF ClientCurrent
  <1>5. ASSUME NEW s \in Savers, Later(s) PROVE SoloInv' /\ ClientCurrent'
    <2>1. PICK to \in {"idle", "write", "written"} : spc' = [spc EXCEPT ![s] = to]
      BY <1>0, <1>5, LaterSteps
    <2>2. PICK w \in Settable : work' = [work EXCEPT ![s] = w]
      BY <1>0, <1>5, LaterSteps
    <2>3. spc'[s] = to /\ spc[s] \in {"open", "write", "written"}
      BY <1>0, <1>5, <2>1, LaterSteps DEF SettingsTypeOK
    <2>4. UNCHANGED <<fields, kvm, clientDue>> /\ met' = IF to = "idle" THEN met \ {s} ELSE met
      BY <1>0, <1>5, <2>3, LaterSteps
    <2>5. s \in Saving /\ Saving' = IF to = "idle" THEN Saving \ {s} ELSE Saving
      BY <1>0, <2>1, <2>3 DEF Saving, SettingsTypeOK
    <2>6. \A t \in Savers : spc'[t] = "build" <=> spc[t] = "build"
      BY <1>0, <2>1, <2>3 DEF SettingsTypeOK
    <2>7. \A t \in Savers : t # s => work'[t] = work[t]
      BY <1>0, <2>2 DEF SettingsTypeOK
    <2>8. SoloInv'
      BY <1>0, <2>3, <2>4, <2>5, <2>6, <2>7 DEF SoloInv, Saving
    <2> QED
      BY <2>4, <2>6, <2>8 DEF ClientCurrent
  <1> QED
    BY <1>1, <1>2, <1>3, <1>4, <1>5 DEF SettingsNext, SaveStep, Later

-----------------------------------------------------------------------------
(* The fields are those of the lines, or what bash makes of them. *)
Same(lines, f) ==
    /\ lines.host = f.host
    /\ f.pass \in {OrElse(lines.pass, admin), OrElse(Read(lines.pass), admin)}

LEMMA MergeSame ==
    ASSUME NEW lines \in Settable, NEW f \in Settable, NEW old \in Fields, Same(lines, old)
    PROVE  Same(Merge(lines, Persisted(f)), Merge(old, f))
  BY SettingsAssumption DEF Same, OrElse, Read, Merge, Keep, Persisted, Settable, Fields

LEMMA MergeNothing ==
    ASSUME NEW lines \in Settable PROVE Merge(lines, Empty) = lines
  BY DEF Merge, Keep, Empty, Settable

LEMMA LoadedSame == \A lines : Same(lines, Loaded(lines))
  BY DEF Same, Loaded

(* Where a save alone has got to: until it truncates the file, that is     *)
(* what was answered for, and with the form what is in effect; then it is  *)
(* empty, and the save holds both.                                         *)
EnvInv ==
    saved # None =>
        /\ met = {}
        /\ Saving = {} => env = saved /\ Same(saved, fields)
        /\ \A s \in Saving :
            /\ Same(Merge(saved, Persisted(form[s])), fields)
            /\ spc[s] # "written" => env = saved
            /\ spc[s] \in {"write", "written"} => work[s] = Merge(saved, Persisted(form[s]))
            /\ spc[s] = "written" => env = Empty

(* EnvInv is inductive. *)
LEMMA EnvInductive ==
    ClientInv /\ EnvInv /\ [SettingsNext]_settingsVars => EnvInv'
  <1> SUFFICES ASSUME ClientInv, EnvInv, [SettingsNext]_settingsVars, saved' # None
               PROVE  EnvInv'
    BY DEF EnvInv
  <1>0. SettingsTypeOK /\ SoloInv
    BY DEF ClientInv, SettingsInv
  <1>1. CASE UNCHANGED settingsVars
    BY <1>1 DEF settingsVars, EnvInv, Saving
  <1>2. CASE Restart
    <2>1. Saving' = {} /\ met' = {} /\ fields' = Loaded(env')
      BY <1>2 DEF Restart, NoSave, Saving
    <2>2. saved' = env'
      <3>1. CASE saved' = env'
        BY <3>1
      <3>2. CASE saved' # env'
        <4>1. saved' = saved /\ env' = env /\ saved # None /\ \A s \in Savers : spc[s] # "written"
          BY <1>2, <3>2 DEF Restart
        <4>2. env = saved
          BY <4>1 DEF EnvInv, Saving
        <4> QED
          BY <4>1, <4>2
      <3> QED
        BY <3>1, <3>2
    <2>3. Same(saved', fields')
      BY <2>1, <2>2, LoadedSame
    <2> QED
      BY <2>1, <2>2, <2>3 DEF EnvInv
  <1>3. ASSUME NEW s \in Savers, SaveFields(s) PROVE EnvInv'
    <2>1. PICK f \in Forms : fields' = Merge(fields, f) /\ form' = [form EXCEPT ![s] = f]
      BY <1>3 DEF SaveFields
    <2>2. Saving = {} /\ met' = met /\ saved' = saved /\ saved # None
      BY <1>3 DEF SaveFields
    <2>3. /\ spc' = [spc EXCEPT ![s] = IF fields'.host = None THEN "open" ELSE "build"]
          /\ env' = env
      BY <1>3 DEF SaveFields
    <2>4. Saving' = {s} /\ spc'[s] \in {"build", "open"} /\ form'[s] = f
      BY <1>0, <2>1, <2>2, <2>3 DEF Saving, SettingsTypeOK
    <2>5. saved \in Settable /\ Same(saved, fields) /\ env = saved /\ f \in Settable
      BY <1>0, <2>2, SettingsAssumption DEF EnvInv, SettingsTypeOK, Contents
    <2>6. Same(Merge(saved, Persisted(f)), fields')
      BY <1>0, <2>1, <2>5, MergeSame DEF SettingsTypeOK
    <2> QED
      BY <2>2, <2>3, <2>4, <2>5, <2>6 DEF EnvInv
  <1>4. ASSUME NEW s \in Savers, BuildClient(s) PROVE EnvInv'
    <2>1. /\ spc[s] = "build" /\ spc' = [spc EXCEPT ![s] = "open"]
          /\ UNCHANGED <<fields, env, form, work, met, saved>>
      BY <1>4 DEF BuildClient
    <2>2. Saving' = Saving /\ s \in Saving
      BY <1>0, <2>1 DEF Saving, SettingsTypeOK
    <2>3. Saving = {s} /\ spc'[s] = "open"
      BY <1>0, <2>1, <2>2 DEF EnvInv, SoloInv, SettingsTypeOK
    <2> QED
      BY <2>1, <2>2, <2>3 DEF EnvInv
  <1>5. ASSUME NEW s \in Savers, Later(s) PROVE EnvInv'
    <2>0. saved # None
      BY <1>5 DEF Later, NothingToPersist, ReadEnv, ReadFails, Truncate, OpenFails, Write,
                  WriteFails
    <2>1. UNCHANGED fields /\ s \in Saving
      BY <1>0, <1>5, LaterSteps DEF Saving
    <2>2. met = {} /\ Saving = {s}
      BY <1>0, <2>0, <2>1 DEF EnvInv, SoloInv
    <2>3. form[s] \in Settable /\ saved \in Settable
      BY <1>0, <2>0 DEF SettingsTypeOK, Contents
    <2>4. CASE ReadEnv(s)
      <3>1. /\ spc[s] = "open" /\ spc' = [spc EXCEPT ![s] = "write"] /\ met' = met
            /\ work' = [work EXCEPT ![s] = Merge(env, Persisted(form[s]))]
            /\ UNCHANGED <<env, form, saved>>
        BY <2>4 DEF ReadEnv
      <3>2. Saving' = {s} /\ spc'[s] = "write" /\ work'[s] = Merge(env, Persisted(form[s]))
        BY <1>0, <2>2, <3>1 DEF Saving, SettingsTypeOK
      <3>3. env = saved
        BY <2>0, <2>1, <3>1 DEF EnvInv
      <3> QED
        BY <2>0, <2>1, <2>2, <3>1, <3>2, <3>3 DEF EnvInv
    <2>5. CASE Truncate(s)
      <3>1. /\ spc[s] = "write" /\ spc' = [spc EXCEPT ![s] = "written"] /\ env' = Empty
            /\ UNCHANGED <<work, met, form, saved>>
        BY <2>5 DEF Truncate
      <3>2. Saving' = {s} /\ spc'[s] = "written"
        BY <1>0, <2>2, <3>1 DEF Saving, SettingsTypeOK
      <3> QED
        BY <2>0, <2>1, <2>2, <3>1, <3>2 DEF EnvInv
    <2>6. CASE NothingToPersist(s)
      <3>1. /\ spc[s] = "open" /\ Persisted(form[s]) = Empty /\ Answer(s)
            /\ UNCHANGED <<env, saved>>
        BY <2>6 DEF NothingToPersist
      <3>2. Same(Merge(saved, Empty), fields) /\ env = saved
        BY <2>0, <2>1, <3>1 DEF EnvInv
      <3>3. Same(saved, fields)
        BY <2>3, <3>2, MergeNothing
      <3>4. Saving' = {} /\ met' = {}
        BY <1>0, <2>2, <3>1 DEF Answer, Saving, SettingsTypeOK
      <3> QED
        BY <2>1, <3>1, <3>2, <3>3, <3>4 DEF EnvInv
    <2>7. CASE Write(s)
      <3>1. spc[s] = "written" /\ env = Empty
        BY <2>0, <2>1, <2>7 DEF Write, EnvInv
      <3>2. /\ env' = work[s] /\ saved' = Merge(saved, Persisted(form[s])) /\ Answer(s)
        BY <2>0, <2>7, <3>1 DEF Write
      <3>3. work[s] = saved' /\ Same(saved', fields)
        BY <2>0, <2>1, <3>1, <3>2 DEF EnvInv
      <3>4. Saving' = {} /\ met' = {}
        BY <1>0, <2>2, <3>2 DEF Answer, Saving, SettingsTypeOK
      <3> QED
        BY <2>1, <3>2, <3>3, <3>4 DEF EnvInv
    <2>8. CASE ReadFails(s) \/ OpenFails(s) \/ WriteFails(s)
      BY <2>8 DEF ReadFails, OpenFails, WriteFails
    <2> QED
      BY <1>5, <2>4, <2>5, <2>6, <2>7, <2>8 DEF Later
  <1> QED
    BY <1>1, <1>2, <1>3, <1>4, <1>5 DEF SettingsNext, SaveStep, Later

-----------------------------------------------------------------------------
(* The requests do nothing to the settings. *)
LEMMA StepIsSettings == [Next]_vars => [SettingsNext]_settingsVars
  <1> SUFFICES ASSUME [Next]_vars PROVE [SettingsNext]_settingsVars
    OBVIOUS
  <1>1. CASE UNCHANGED vars
    BY <1>1 DEF vars
  <1>2. CASE RestartAll
    BY <1>2 DEF RestartAll, SettingsNext
  <1>3. CASE \E s \in Savers : SaveStep(s) /\ UNCHANGED keyVars
    BY <1>3 DEF SettingsNext
  <1>4. ASSUME NEW t \in Typists, KeyStep(t) PROVE UNCHANGED settingsVars
    BY <1>4 DEF KeyStep, TakeClient, Press, PressFails, Release, ReleaseFails, Done
  <1>5. ASSUME NEW o \in Operators, OperatorStep(o) PROVE UNCHANGED settingsVars
    BY <1>5 DEF OperatorStep, RequireSSH, FetchClient, SSHRun
  <1> QED
    BY <1>1, <1>2, <1>3, <1>4, <1>5 DEF Next

(* Keys implements Settings. *)
THEOREM KeysSettings == Spec => SettingsSpec
  <1>1. Init => SettingsInit
    BY DEF Init
  <1> QED
    BY <1>1, StepIsSettings, PTL DEF Spec, SettingsSpec

(* The invariants of the settings. *)
LEMMA SettingsInvariant == SettingsSpec => [](ClientInv /\ EnvInv)
  <1>1. SettingsInit => ClientInv /\ EnvInv
    <2> SUFFICES ASSUME SettingsInit PROVE ClientInv /\ EnvInv
      OBVIOUS
    <2>1. env \in Settable /\ fields \in Fields /\ Saving = {}
      BY LoadedTyped, SettingsAssumption DEF SettingsInit, Contents, NoSave, Saving
    <2>2. /\ spc \in [Savers -> {"idle"}] /\ form \in [Savers -> Settable]
          /\ work \in [Savers -> Settable]
      BY DataTyped DEF SettingsInit, NoSave, NoData
    <2>3. SettingsTypeOK
      BY <2>1, <2>2 DEF SettingsInit, SettingsTypeOK, ClientOf, Contents
    <2>4. SettingsInv
      BY <2>1, <2>2, <2>3 DEF SettingsInit, SettingsInv, ClientOf
    <2>5. SoloInv /\ ClientCurrent
      BY <2>1 DEF SettingsInit, SoloInv, ClientCurrent
    <2>6. EnvInv
      BY <2>1, LoadedSame DEF SettingsInit, EnvInv
    <2> QED
      BY <2>4, <2>5, <2>6 DEF ClientInv
  <1> QED
    BY <1>1, ClientInductive, EnvInductive, PTL DEF SettingsSpec

(* When saves do not overlap, requests go to the host of the settings, and *)
(* one save alone repairs what overlapping ones have left.                 *)
THEOREM ClientIsCurrent == Spec => []ClientCurrent
  <1>1. ClientInv => ClientCurrent
    BY DEF ClientInv
  <1> QED
    BY <1>1, KeysSettings, SettingsInvariant, PTL

(* The file keeps what saves were answered for, wherever restarts cut      *)
(* others, and would start the server with the host and the password it    *)
(* has, as bash reads them.                                                *)
THEOREM SettingsSurviveRestart == Spec => []RestartKeepsSettings
  <1>1. SettingsInv /\ EnvInv => RestartKeepsSettings
    <2> SUFFICES ASSUME SettingsInv, EnvInv, saved # None, Saving = {}
                 PROVE  /\ env = saved
                        /\ Loaded(env).host = fields.host
                        /\ fields.pass \in {OrElse(env.pass, admin), Loaded(env).pass}
      BY DEF RestartKeepsSettings
    <2> QED
      BY DEF EnvInv, Same, Loaded
  <1>2. ClientInv => SettingsInv
    BY DEF ClientInv
  <1> QED
    BY <1>1, <1>2, KeysSettings, SettingsInvariant, PTL

-----------------------------------------------------------------------------
(* The requests. *)
RequestTypeOK ==
    /\ tpc \in [Typists -> {"idle", "press", "release"}]
    /\ target \in [Typists -> Hosts \cup {None}]
    /\ held \subseteq Hosts /\ blamed \subseteq Hosts
    /\ opc \in [Operators -> {"idle", "fetch", "run"}]
    /\ ready \in [Operators -> BOOLEAN]

(* A request holds a host; a client that was there at requireSSH stays.    *)
RequestInv ==
    /\ RequestTypeOK
    /\ \A t \in Typists : tpc[t] # "idle" => target[t] \in Hosts
    /\ \A o \in Operators : /\ opc[o] = "fetch" => kvm # None
                            /\ opc[o] = "run" => ready[o]
    /\ KeysComeUp

(* RequestInv is inductive, given the types of the settings. *)
LEMMA RequestInductive == SettingsInv /\ RequestInv /\ [Next]_vars => RequestInv'
  <1> SUFFICES ASSUME SettingsInv, RequestInv, [Next]_vars PROVE RequestInv'
    OBVIOUS
  <1>0. RequestTypeOK
    BY DEF RequestInv
  <1>1. CASE UNCHANGED vars
    BY <1>1 DEF vars, keyVars, settingsVars, RequestInv, RequestTypeOK, KeysComeUp
  <1>2. CASE RestartAll
    <2>1. /\ tpc' \in [Typists -> {"idle"}] /\ target' \in [Typists -> {None}]
          /\ opc' \in [Operators -> {"idle"}] /\ ready' \in [Operators -> {FALSE}]
      BY <1>2 DEF RestartAll, NoPress, NoTarget, NoRun, NotReady
    <2>2. blamed' \subseteq Hosts /\ held' \subseteq Hosts
      BY <1>2, <1>0 DEF RestartAll, RequestTypeOK, RequestInv
    <2>3. held' \ blamed' = {}
      BY <1>2 DEF RestartAll, RequestInv, KeysComeUp
    <2>4. KeysComeUp'
      BY <2>3 DEF KeysComeUp
    <2>5. RequestTypeOK'
      BY <2>1, <2>2 DEF RequestTypeOK
    <2> QED
      BY <2>1, <2>4, <2>5 DEF RequestInv
  <1>3. ASSUME NEW s \in Savers, SaveStep(s), UNCHANGED keyVars PROVE RequestInv'
    <2>1. kvm # None => kvm' # None
      <3>1. CASE SaveFields(s)
        BY <3>1 DEF SaveFields
      <3>2. CASE BuildClient(s)
        BY <3>2, SettingsAssumption DEF BuildClient, SettingsInv
      <3>3. CASE Later(s)
        BY <3>3, LaterSteps DEF SettingsInv
      <3> QED
        BY <1>3, <3>1, <3>2, <3>3 DEF SaveStep, Later
    <2> QED
      BY <1>3, <2>1 DEF keyVars, RequestInv, RequestTypeOK, KeysComeUp
  <1>4. ASSUME NEW t \in Typists, KeyStep(t) PROVE RequestInv'
    <2>0. UNCHANGED <<kvm, opc, ready>>
      BY <1>4 DEF KeyStep, TakeClient, Press, PressFails, Release, ReleaseFails, Done,
                  settingsVars
    <2>1. CASE TakeClient(t)
      <3>1. kvm.host \in Hosts
        BY <2>1 DEF TakeClient, SettingsInv, SettingsTypeOK, Fields
      <3>2. /\ tpc[t] = "idle" /\ tpc' = [tpc EXCEPT ![t] = "press"]
            /\ target' = [target EXCEPT ![t] = kvm.host] /\ UNCHANGED <<held, blamed>>
        BY <2>1 DEF TakeClient
      <3>3. KeysComeUp'
        BY <1>0, <3>2 DEF RequestInv, RequestTypeOK, KeysComeUp
      <3> QED
        BY <1>0, <2>0, <3>1, <3>2, <3>3 DEF RequestInv, RequestTypeOK
    <2>2. CASE Press(t)
      <3>1. /\ tpc[t] = "press" /\ tpc' = [tpc EXCEPT ![t] = "release"]
            /\ held' = held \cup {target[t]} /\ UNCHANGED <<target, blamed>>
        BY <2>2 DEF Press
      <3>2. target[t] \in Hosts
        BY <3>1 DEF RequestInv
      <3>3. KeysComeUp'
        BY <1>0, <3>1 DEF RequestInv, RequestTypeOK, KeysComeUp
      <3> QED
        BY <1>0, <2>0, <3>1, <3>2, <3>3 DEF RequestInv, RequestTypeOK
    <2>3. CASE PressFails(t) \/ Release(t) \/ ReleaseFails(t)
      <3>1. /\ tpc[t] # "idle" /\ tpc' = [tpc EXCEPT ![t] = "idle"]
            /\ target' = [target EXCEPT ![t] = None]
        BY <2>3 DEF PressFails, Release, ReleaseFails, Done
      <3>2. target[t] \in Hosts
        BY <3>1 DEF RequestInv
      <3>3. /\ held' \subseteq held \cup {target[t]} /\ blamed' \subseteq blamed \cup {target[t]}
            /\ held' \ blamed' \subseteq (held \ blamed) \ {target[t]}
        BY <2>3 DEF PressFails, Release, ReleaseFails
      <3>4. KeysComeUp'
        BY <1>0, <3>1, <3>3 DEF RequestInv, RequestTypeOK, KeysComeUp
      <3>5. RequestTypeOK'
        BY <1>0, <2>0, <3>1, <3>2, <3>3 DEF RequestTypeOK
      <3>6. \A u \in Typists : tpc'[u] # "idle" => target'[u] \in Hosts
        BY <1>0, <3>1 DEF RequestInv, RequestTypeOK
      <3> QED
        BY <2>0, <3>4, <3>5, <3>6 DEF RequestInv
    <2> QED
      BY <1>4, <2>1, <2>2, <2>3 DEF KeyStep
  <1>5. ASSUME NEW o \in Operators, OperatorStep(o) PROVE RequestInv'
    <2>0. UNCHANGED <<kvm, tpc, target, held, blamed>>
      BY <1>5 DEF OperatorStep, RequireSSH, FetchClient, SSHRun, settingsVars
    <2>1. CASE RequireSSH(o)
      BY <1>0, <2>0, <2>1 DEF RequireSSH, RequestInv, RequestTypeOK, KeysComeUp
    <2>2. CASE FetchClient(o)
      BY <1>0, <2>0, <2>2 DEF FetchClient, RequestInv, RequestTypeOK, KeysComeUp
    <2>3. CASE SSHRun(o)
      BY <1>0, <2>0, <2>3 DEF SSHRun, RequestInv, RequestTypeOK, KeysComeUp
    <2> QED
      BY <1>5, <2>1, <2>2, <2>3 DEF OperatorStep
  <1> QED
    BY <1>1, <1>2, <1>3, <1>4, <1>5 DEF Next

(* The invariant of settings and requests together. *)
LEMMA RequestInvariant == Spec => [](SettingsInv /\ RequestInv)
  <1>1. Init => RequestInv
    BY DEF Init, NoPress, NoTarget, NoRun, NotReady, RequestInv, RequestTypeOK, KeysComeUp
  <1>2. Spec => []SettingsInv
    <2>1. ClientInv => SettingsInv
      BY DEF ClientInv
    <2> QED
      BY <2>1, KeysSettings, SettingsInvariant, PTL
  <1> QED
    BY <1>1, <1>2, RequestInductive, PTL DEF Spec

(* Type correctness. *)
THEOREM TypeCorrect == Spec => []TypeOK
  <1>1. SettingsInv /\ RequestInv => TypeOK
    BY DEF SettingsInv, RequestInv, RequestTypeOK, TypeOK
  <1> QED
    BY <1>1, RequestInvariant, PTL

(* No key stays down for another reason than a failure or a restart.       *)
THEOREM AllKeysComeUp == Spec => []KeysComeUp
  <1>1. RequestInv => KeysComeUp
    BY DEF RequestInv
  <1> QED
    BY <1>1, RequestInvariant, PTL

(* What requireSSH has seen is still true at the second read of h.kvm.     *)
THEOREM FetchedClientsReady == Spec => []FetchedClientIsReady
  <1>1. RequestInv => FetchedClientIsReady
    BY DEF RequestInv, FetchedClientIsReady
  <1> QED
    BY <1>1, RequestInvariant, PTL
=============================================================================

------------------------- MODULE LintaiPluginProofs -------------------------
(***************************************************************************)
(* For any files, rules, analyses and configs: the rules of a pass share   *)
(* out one reading that was current in its task, and problems are shown.   *)
(***************************************************************************)
EXTENDS LintaiPlugin, FiniteSetTheorems, TLAPS

(* lintAnalysis runs at most once in a pass. *)
CountOK ==
  /\ analysed <= passes
  /\ Analysis \in pass.todo => analysed < passes
  /\ reportProblemsOnce => /\ problemsReported <=> analysed > 0
                           /\ loadErrorsReported <=> analysed > 0

(* What was read in a task was current in it. *)
EntryOK(x, t, d) ==
  IF d = Nothing
  THEN mode = "serve" /\ seen.disk[x] \ {t, Nothing} # {}
  ELSE /\ d \in seen.found[x]
       /\ mode = "serve" => seen.disk[x] \cap {t, Nothing} # {}

TaskOK ==
  /\ ~inTask => passCache = [x \in Files |-> Nothing]
  /\ \A x \in Files :
       /\ inTask => disk[x] \in seen.disk[x] /\ client.result.found[x] \in seen.found[x]
       /\ passCache[x] # Nothing => EntryOK(x, passCache[x].text, passCache[x].diagnostics)

(* A pass reads once, and each rule that has run has reported its share. *)
ReadOK ==
  /\ pass.todo # {} => inTask /\ pass.file \in Files /\ pass.text \in Texts
  /\ ~pass.read => reports = {} /\ pass.todo \in {{}, enabled}
  /\ pass.read => /\ pass.file \in Files
                  /\ EntryOK(pass.file, pass.text, pass.reading)
                  /\ inTask => passCache[pass.file] = [text |-> pass.text, diagnostics |-> pass.reading]

Done == enabled \ pass.todo

About(x) == {r \in reports : r.what = x}

Share(x) == pass.reading # Nothing /\ x \in pass.reading /\ Reporter(x) \in Done

ShareOK ==
  pass.read =>
    /\ \A x \in Diagnostics :
         /\ Share(x) => \E r \in reports : About(x) = {r}
         /\ ~Share(x) => About(x) = {}
    /\ About(Message) # {} <=> pass.reading = Nothing /\ Analysis \in Done

Shown == {r.what : r \in {r \in reports : r.as = "problem"}}

ShownOK ==
  /\ Analysis \in pass.todo \/ pass.reading = Nothing => Shown = {}
  /\ pass.read /\ inTask /\ Analysis \in Done /\ pass.reading # Nothing =>
       Shown = IF reportProblemsOnce /\ analysed > 1 THEN {} ELSE client.result.problems \cup LoadErrors

Inv == TypeOK /\ CountOK /\ TaskOK /\ ReadOK /\ ShareOK /\ ShownOK

-----------------------------------------------------------------------------
(* The result of the client is the start of a rule set, or an analysis. *)
LEMMA ResultsType ==
  \A c \in [loaded : BOOLEAN, result : Results \cup {Unloaded}] :
    /\ \A x \in Files : c.result.found[x] \in SUBSET Diagnostics
    /\ c.result.problems \in SUBSET Problems
BY PluginAssumption DEF Unloaded

LEMMA InitInv == Init => Inv
<1> SUFFICES ASSUME Init PROVE Inv
  OBVIOUS
<1> USE DEF Init
<1>1. TypeOK
  <2>1. passes \in 0..MaxPasses /\ analysed \in 0..MaxPasses
    BY PluginAssumption
  <2>2. client \in [loaded : BOOLEAN, result : Results \cup {Unloaded}]
    OBVIOUS
  <2>3. pass \in [file : {Nothing} \cup Files, text : {Nothing} \cup Texts, todo : SUBSET enabled,
                  read : BOOLEAN, reading : Readings]
    BY DEF NoPass, Readings
  <2>4. passCache \in [Files -> {Nothing} \cup [text : Texts, diagnostics : Readings]]
    OBVIOUS
  <2>5. seen \in [found : [Files -> SUBSET SUBSET Diagnostics],
                  disk : [Files -> SUBSET (Texts \cup {Nothing})]]
    OBVIOUS
  <2> QED
    BY <2>1, <2>2, <2>3, <2>4, <2>5 DEF TypeOK
<1>2. CountOK
  BY DEF CountOK, NoPass
<1>3. TaskOK
  BY DEF TaskOK
<1>4. ReadOK
  BY DEF ReadOK, NoPass
<1>5. ShareOK /\ ShownOK
  BY DEF ShareOK, ShownOK, Shown, NoPass
<1> QED
  BY <1>1, <1>2, <1>3, <1>4, <1>5 DEF Inv

-----------------------------------------------------------------------------
LEMMA Counters ==
  ASSUME TypeOK
  PROVE  passes \in Nat /\ analysed \in Nat /\ MaxPasses \in Nat /\ passes <= MaxPasses
<1>1. passes \in 0..MaxPasses /\ analysed \in 0..MaxPasses
  BY DEF TypeOK
<1>2. MaxPasses \in Nat
  BY PluginAssumption
<1> QED
  BY <1>1, <1>2

(* What a rule of a pass reads, whichever rule it is. *)
CallContext(rule, d, new) ==
  /\ Inv
  /\ rule \in pass.todo /\ d \in Readings
  /\ diagnosticsFor(pass.file, pass.text, d)
  /\ Calls(rule, d, new)

(* A pass that has read finds its entry in the cache. *)
LEMMA CallReads ==
  ASSUME NEW rule, NEW d, NEW new, CallContext(rule, d, new)
  PROVE  /\ inTask /\ inTask' /\ pass.file \in Files /\ pass.text \in Texts
         /\ pass' \in [file : {Nothing} \cup Files, text : {Nothing} \cup Texts, todo : SUBSET enabled,
                       read : BOOLEAN, reading : Readings]
         /\ pass'.file = pass.file /\ pass'.text = pass.text /\ pass'.todo = pass.todo \ {rule}
         /\ pass'.read /\ pass'.reading = d
         /\ pass.read => client' = client /\ d = pass.reading
         /\ ~pass.read => reports = {} /\ pass.todo = enabled
         /\ client' \in [loaded : BOOLEAN, result : Results \cup {Unloaded}]
         /\ passCache' = [passCache EXCEPT ![pass.file] = [text |-> pass.text, diagnostics |-> d]]
<1> USE DEF CallContext, Inv
<1>1. /\ inTask /\ pass.file \in Files /\ pass.text \in Texts
      /\ ~pass.read => reports = {} /\ pass.todo = enabled
  BY DEF ReadOK
<1>2. inTask'
  BY <1>1 DEF Calls
<1>3. ASSUME pass.read PROVE client' = client /\ d = pass.reading
  <2>1. passCache[pass.file] = [text |-> pass.text, diagnostics |-> pass.reading]
    BY <1>1, <1>3 DEF ReadOK
  <2>2. pass.reading \in {Nothing} \cup SUBSET Diagnostics
    BY DEF TypeOK, Readings
  <2>3. passCache[pass.file] # Nothing /\ passCache[pass.file].text = pass.text
        /\ passCache[pass.file].diagnostics = pass.reading
    BY <1>1, <2>1, <2>2, PluginAssumption
  <2> QED
    BY <2>3 DEF diagnosticsFor, Cached
<1>4. /\ pass' \in [file : {Nothing} \cup Files, text : {Nothing} \cup Texts, todo : SUBSET enabled,
                    read : BOOLEAN, reading : Readings]
      /\ pass'.file = pass.file /\ pass'.text = pass.text /\ pass'.todo = pass.todo \ {rule}
      /\ pass'.read /\ pass'.reading = d
  <2>1. pass' = [pass EXCEPT !.todo = @ \ {rule}, !.read = TRUE, !.reading = d]
    BY <1>3 DEF Calls
  <2>2. pass \in [file : {Nothing} \cup Files, text : {Nothing} \cup Texts, todo : SUBSET enabled,
                  read : BOOLEAN, reading : Readings]
    BY DEF TypeOK
  <2> QED
    BY <2>1, <2>2
<1>5. client' \in [loaded : BOOLEAN, result : Results \cup {Unloaded}]
  BY DEF TypeOK, diagnosticsFor, readDiagnostics, GetDiagnostics
<1>6. passCache' = [passCache EXCEPT ![pass.file] = [text |-> pass.text, diagnostics |-> d]]
  <2>1. CASE Cached(pass.file, pass.text)
    <3>1. /\ passCache' = passCache
          /\ d = passCache[pass.file].diagnostics /\ pass.text = passCache[pass.file].text
          /\ passCache[pass.file] # Nothing
      BY <2>1 DEF diagnosticsFor, Cached
    <3>2. passCache[pass.file] \in [text : Texts, diagnostics : Readings]
      BY <1>1, <3>1 DEF TypeOK
    <3>3. passCache[pass.file] = [text |-> pass.text, diagnostics |-> d]
      BY <3>1, <3>2
    <3> QED
      BY <1>1, <3>1, <3>3 DEF TypeOK
  <2>2. CASE ~Cached(pass.file, pass.text)
    BY <2>2 DEF diagnosticsFor
  <2> QED
    BY <2>1, <2>2
<1> QED
  BY <1>1, <1>2, <1>3, <1>4, <1>5, <1>6

LEMMA CallTypes ==
  ASSUME NEW rule, NEW d, NEW new, CallContext(rule, d, new),
         new \subseteq [by : Rules \cup {Analysis},
                        as : {"own", "problem", "rule error", "orphan", "message"},
                        what : Diagnostics \cup Problems \cup LoadErrors \cup {Message}],
         problemsReported' \in BOOLEAN, loadErrorsReported' \in BOOLEAN,
         analysed' \in 0..MaxPasses
  PROVE  TypeOK'
<1>1. /\ mode' = mode /\ reportProblemsOnce' = reportProblemsOnce /\ known' = known
      /\ enabled' = enabled /\ disk' = disk /\ inTask' = inTask /\ passes' = passes
      /\ reports' = reports \cup new /\ d \in Readings /\ TypeOK
  BY DEF CallContext, Calls, options, Inv
<1>2. /\ passCache' \in [Files -> {Nothing} \cup [text : Texts, diagnostics : Readings]]
      /\ pass' \in [file : {Nothing} \cup Files, text : {Nothing} \cup Texts, todo : SUBSET enabled,
                    read : BOOLEAN, reading : Readings]
  <2>1. /\ pass' \in [file : {Nothing} \cup Files, text : {Nothing} \cup Texts, todo : SUBSET enabled,
                      read : BOOLEAN, reading : Readings]
        /\ passCache' = [passCache EXCEPT ![pass.file] = [text |-> pass.text, diagnostics |-> d]]
        /\ pass.text \in Texts
    BY CallReads
  <2>2. passCache \in [Files -> {Nothing} \cup [text : Texts, diagnostics : Readings]]
    BY <1>1 DEF TypeOK
  <2> QED
    BY <1>1, <2>1, <2>2
<1>3. seen' \in [found : [Files -> SUBSET SUBSET Diagnostics],
                 disk : [Files -> SUBSET (Texts \cup {Nothing})]]
  <2>1. \A x \in Files : client'.result.found[x] \in SUBSET Diagnostics
    BY CallReads, ResultsType
  <2>2. seen' = [seen EXCEPT !.found = [x \in Files |-> seen.found[x] \cup {client'.result.found[x]}]]
    BY DEF CallContext, Calls
  <2>3. seen \in [found : [Files -> SUBSET SUBSET Diagnostics],
                  disk : [Files -> SUBSET (Texts \cup {Nothing})]]
    BY <1>1 DEF TypeOK
  <2>4. [x \in Files |-> seen.found[x] \cup {client'.result.found[x]}] \in [Files -> SUBSET SUBSET Diagnostics]
    <3>1. \A x \in Files : seen.found[x] \in SUBSET SUBSET Diagnostics
      BY <2>3
    <3>2. ASSUME NEW x \in Files
          PROVE  seen.found[x] \cup {client'.result.found[x]} \in SUBSET SUBSET Diagnostics
      <4>1. \A A, e : A \subseteq SUBSET Diagnostics /\ e \subseteq Diagnostics => A \cup {e} \subseteq SUBSET Diagnostics
        OBVIOUS
      <4>2. seen.found[x] \subseteq SUBSET Diagnostics /\ client'.result.found[x] \subseteq Diagnostics
        BY <2>1, <3>1
      <4>3. seen.found[x] \cup {client'.result.found[x]} \subseteq SUBSET Diagnostics
        BY <4>1, <4>2
      <4> QED
        BY <4>3
    <3> QED
      BY <3>2
  <2> QED
    BY <2>2, <2>3, <2>4
<1> QED
  BY <1>1, <1>2, <1>3, CallReads DEF TypeOK

LEMMA CallTask ==
  ASSUME NEW rule, NEW d, NEW new, CallContext(rule, d, new)
  PROVE  TaskOK' /\ ReadOK'
<1>0. /\ pass'.file = pass.file /\ pass'.text = pass.text /\ pass'.reading = d /\ pass'.read
      /\ passCache' = [passCache EXCEPT ![pass.file] = [text |-> pass.text, diagnostics |-> d]]
  <2>1. pass'.file = pass.file /\ pass'.text = pass.text /\ pass'.reading = d /\ pass'.read
    BY CallReads
  <2>2. passCache' = [passCache EXCEPT ![pass.file] = [text |-> pass.text, diagnostics |-> d]]
    BY CallReads
  <2> QED
    BY <2>1, <2>2
<1>1. /\ mode' = mode /\ disk' = disk /\ inTask /\ inTask' /\ TypeOK /\ TaskOK /\ ReadOK
      /\ enabled' = enabled
      /\ pass.file \in Files /\ pass.text \in Texts
  BY CallReads DEF CallContext, Calls, options, Inv
<1>2. /\ seen'.disk = seen.disk
      /\ \A x \in Files : /\ seen'.found[x] = seen.found[x] \cup {client'.result.found[x]}
                          /\ seen.found[x] \subseteq seen'.found[x]
  <2>1. seen' = [seen EXCEPT !.found = [x \in Files |-> seen.found[x] \cup {client'.result.found[x]}]]
    BY DEF CallContext, Calls
  <2> QED
    BY <1>1, <2>1 DEF TypeOK
<1>3. \A x \in Files : \A t, e : EntryOK(x, t, e) => EntryOK(x, t, e)'
  BY <1>1, <1>2 DEF EntryOK
<1>4. EntryOK(pass.file, pass.text, d)'
  <2>1. CASE Cached(pass.file, pass.text)
    <3>1. EntryOK(pass.file, pass.text, d)
      BY <1>1, <2>1 DEF CallContext, diagnosticsFor, Cached, TaskOK
    <3>2. \E x \in Files : \E t, e : x = pass.file /\ t = pass.text /\ e = d /\ EntryOK(x, t, e)
      BY <1>1, <3>1
    <3>3. \E x \in Files : \E t, e : x = pass.file /\ t = pass.text /\ e = d /\ EntryOK(x, t, e)'
      BY <1>3, <3>2
    <3>4. pass'.file = pass.file /\ pass'.text = pass.text
      BY CallReads
    <3> QED
      BY <3>3, <3>4 DEF EntryOK
  <2>2. CASE ~Cached(pass.file, pass.text)
    <3>1. readDiagnostics(pass.file, pass.text, d)
      BY <2>2 DEF CallContext, diagnosticsFor
    <3>2. disk[pass.file] \in seen.disk[pass.file]
      BY <1>1 DEF TaskOK
    <3>3. CASE mode = "serve" /\ hasUnsavedChanges(pass.file, pass.text)
      BY <1>1, <1>2, <3>1, <3>2, <3>3, CallReads DEF readDiagnostics, EntryOK, hasUnsavedChanges
    <3>4. CASE ~(mode = "serve" /\ hasUnsavedChanges(pass.file, pass.text))
      <4>1. d = client'.result.found[pass.file]
        BY <3>1, <3>4 DEF readDiagnostics
      <4>2. client' \in [loaded : BOOLEAN, result : Results \cup {Unloaded}]
        BY CallReads
      <4>3. d # Nothing
        BY <1>1, <4>1, <4>2, ResultsType, PluginAssumption
      <4>4. d \in seen'.found[pass.file]
        BY <1>1, <1>2, <4>1
      <4>5. mode = "serve" => seen'.disk[pass.file] \cap {pass.text, Nothing} # {}
        BY <1>1, <1>2, <3>2, <3>4 DEF hasUnsavedChanges
      <4>6. pass'.file = pass.file /\ pass'.text = pass.text
        BY CallReads
      <4> QED
        BY <1>1, <4>3, <4>4, <4>5, <4>6 DEF EntryOK
    <3> QED
      BY <3>3, <3>4
  <2> QED
    BY <2>1, <2>2
<1>5. TaskOK'
  <2> SUFFICES ASSUME NEW x \in Files
               PROVE  /\ disk'[x] \in seen'.disk[x] /\ client'.result.found[x] \in seen'.found[x]
                      /\ passCache'[x] # Nothing =>
                           EntryOK(x, passCache[x].text, passCache[x].diagnostics)'
    BY <1>1 DEF TaskOK
  <2>1. disk'[x] \in seen'.disk[x] /\ client'.result.found[x] \in seen'.found[x]
    BY <1>1, <1>2 DEF TaskOK
  <2>2. CASE x = pass.file
    <3>1. passCache'[x] = [text |-> pass.text, diagnostics |-> d]
      BY <1>0, <1>1, <2>2 DEF TypeOK
    <3> QED
      BY <1>0, <1>4, <2>1, <2>2, <3>1 DEF EntryOK
  <2>3. CASE x # pass.file
    <3>1. passCache'[x] = passCache[x]
      BY <1>0, <1>1, <2>3 DEF TypeOK
    <3> QED
      BY <1>1, <1>2, <2>1, <3>1 DEF EntryOK, TaskOK
  <2> QED
    BY <2>2, <2>3
<1>6. ReadOK'
  <2>1. /\ pass'.file = pass.file /\ pass'.text = pass.text /\ pass'.reading = d /\ pass'.read
        /\ passCache'[pass.file] = [text |-> pass.text, diagnostics |-> d]
    BY <1>0, <1>1 DEF TypeOK
  <2> QED
    BY <1>1, <1>4, <2>1 DEF ReadOK, EntryOK
<1> QED
  BY <1>5, <1>6

-----------------------------------------------------------------------------
(* What the rules that have run report, when all of them have read d. *)
SharesOf(d, ran, rs) ==
  /\ \A x \in Diagnostics :
       IF d # Nothing /\ x \in d /\ Reporter(x) \in ran
       THEN \E r \in rs : {q \in rs : q.what = x} = {r}
       ELSE {q \in rs : q.what = x} = {}
  /\ {q \in rs : q.what = Message} # {} <=> d = Nothing /\ Analysis \in ran

LEMMA SharesBefore ==
  ASSUME NEW rule, NEW d, NEW new, CallContext(rule, d, new)
  PROVE  SharesOf(d, Done, reports)
<1>1. TypeOK /\ ShareOK
  BY DEF CallContext, Inv
<1>2. CASE pass.read
  <2>1. d = pass.reading
    BY <1>2, CallReads
  <2> QED
    BY <1>1, <1>2, <2>1 DEF ShareOK, Share, About, SharesOf
<1>3. CASE ~pass.read
  <2>1. reports = {} /\ Done = {}
    BY <1>3, CallReads DEF Done
  <2> QED
    BY <2>1 DEF SharesOf
<1> QED
  BY <1>2, <1>3

(* A rule adds its share of d to those of the others. *)
LEMMA CallShares ==
  ASSUME NEW rule, NEW d, NEW new, CallContext(rule, d, new), SharesOf(d, {rule}, new)
  PROVE  ShareOK'
<1>1. /\ pass'.read /\ pass'.reading = d /\ pass'.todo = pass.todo \ {rule}
      /\ rule \in enabled /\ rule \in pass.todo /\ enabled' = enabled /\ known' = known
      /\ reports' = reports \cup new
  <2>1. pass'.read /\ pass'.reading = d /\ pass'.todo = pass.todo \ {rule}
    BY CallReads
  <2> QED
    BY <2>1 DEF CallContext, Calls, options, Inv, TypeOK
<1>2. Done' = Done \cup {rule} /\ rule \notin Done
  BY <1>1 DEF Done
<1>3. SharesOf(d, Done, reports)
  BY SharesBefore
<1>4. \A x : {q \in reports' : q.what = x} = {q \in reports : q.what = x} \cup {q \in new : q.what = x}
  BY <1>1
<1>5. ASSUME NEW x \in Diagnostics
      PROVE  IF d # Nothing /\ x \in d /\ Reporter(x) \in Done \cup {rule}
             THEN \E r \in reports' : {q \in reports' : q.what = x} = {r}
             ELSE {q \in reports' : q.what = x} = {}
  <2>1. CASE d # Nothing /\ x \in d /\ Reporter(x) = rule
    <3>1. {q \in reports : q.what = x} = {}
      BY <1>2, <1>3, <2>1 DEF SharesOf
    <3>2. PICK r \in new : {q \in new : q.what = x} = {r}
      BY <2>1 DEF SharesOf
    <3> QED
      BY <1>1, <1>4, <2>1, <3>1, <3>2
  <2>2. CASE ~(d # Nothing /\ x \in d /\ Reporter(x) = rule)
    <3>1. {q \in new : q.what = x} = {}
      BY <2>2 DEF SharesOf
    <3>2. {q \in reports' : q.what = x} = {q \in reports : q.what = x}
      BY <1>4, <3>1
    <3> QED
      BY <1>1, <1>3, <2>2, <3>2 DEF SharesOf
  <2> QED
    BY <2>1, <2>2
<1>6. {q \in reports' : q.what = Message} # {} <=> d = Nothing /\ Analysis \in Done \cup {rule}
  <2>1. {q \in reports : q.what = Message} # {} <=> d = Nothing /\ Analysis \in Done
    BY <1>3 DEF SharesOf
  <2>2. {q \in new : q.what = Message} # {} <=> d = Nothing /\ Analysis = rule
    BY DEF SharesOf
  <2> QED
    BY <1>4, <2>1, <2>2
<1>7. \A x : (Reporter(x))' = Reporter(x)
  BY <1>1 DEF Reporter
<1> QED
  BY <1>1, <1>2, <1>5, <1>6, <1>7 DEF ShareOK, Share, About

-----------------------------------------------------------------------------
-----------------------------------------------------------------------------
LEMMA lintRuleInv == ASSUME Inv, NEW id \in Rules, lintRule(id) PROVE Inv'
<1>1. PICK d \in Readings :
        /\ diagnosticsFor(pass.file, pass.text, d)
        /\ Calls(id, d, IF d = Nothing THEN {} ELSE OwnReports(id, d))
  BY DEF lintRule
<1>2. /\ id \in pass.todo /\ id \in enabled /\ id \in known /\ id # Analysis
      /\ problemsReported' = problemsReported /\ loadErrorsReported' = loadErrorsReported
      /\ analysed' = analysed /\ TypeOK
  BY PluginAssumption DEF lintRule, Inv, TypeOK
<1> DEFINE new == IF d = Nothing THEN {} ELSE OwnReports(id, d)
<1>3. CallContext(id, d, new)
  BY <1>1, <1>2 DEF CallContext
<1>4. d # Nothing => d \subseteq Diagnostics
  BY DEF Readings
<1>5. \A q \in new : \E x \in d : /\ d # Nothing /\ x.rule = id /\ x.kind = "violation"
                                  /\ q = [by |-> id, as |-> "own", what |-> x]
  BY DEF OwnReports, Report
<1>6. SharesOf(d, {id}, new)
  <2>1. ASSUME NEW x \in Diagnostics
        PROVE  IF d # Nothing /\ x \in d /\ Reporter(x) \in {id}
               THEN \E r \in new : {q \in new : q.what = x} = {r}
               ELSE {q \in new : q.what = x} = {}
    <3>1. Reporter(x) = id <=> x.rule = id /\ x.kind = "violation"
      BY <1>2 DEF Reporter
    <3>2. CASE d # Nothing /\ x \in d /\ Reporter(x) = id
      <4>1. [by |-> id, as |-> "own", what |-> x] \in new
        BY <3>1, <3>2 DEF OwnReports, Report
      <4>2. {q \in new : q.what = x} = {[by |-> id, as |-> "own", what |-> x]}
        BY <1>5, <4>1
      <4> QED
        BY <3>2, <4>1, <4>2
    <3>3. CASE ~(d # Nothing /\ x \in d /\ Reporter(x) = id)
      <4>1. \A q \in new : q.what # x
        BY <1>5, <3>1, <3>3
      <4> QED
        BY <3>3, <4>1
    <3> QED
      BY <3>2, <3>3
  <2>2. \A q \in new : q.what # Message
    BY <1>4, <1>5, PluginAssumption
  <2> QED
    BY <1>2, <2>1, <2>2 DEF SharesOf
<1>7. TypeOK'
  <2>1. new \subseteq [by : Rules \cup {Analysis},
                       as : {"own", "problem", "rule error", "orphan", "message"},
                       what : Diagnostics \cup Problems \cup LoadErrors \cup {Message}]
    <3> SUFFICES ASSUME NEW q \in new
                 PROVE  q \in [by : Rules \cup {Analysis},
                               as : {"own", "problem", "rule error", "orphan", "message"},
                               what : Diagnostics \cup Problems \cup LoadErrors \cup {Message}]
      OBVIOUS
    <3>1. PICK x \in d : d # Nothing /\ q = [by |-> id, as |-> "own", what |-> x]
      BY <1>5
    <3>2. x \in Diagnostics
      BY <1>4, <3>1
    <3> QED
      BY <3>1, <3>2
  <2>2. problemsReported' \in BOOLEAN /\ loadErrorsReported' \in BOOLEAN /\ analysed' \in 0..MaxPasses
    BY <1>2 DEF TypeOK
  <2> HIDE DEF new
  <2> QED
    BY <1>3, <2>1, <2>2, CallTypes
<1>8. /\ pass'.todo = pass.todo \ {id} /\ pass'.read /\ pass'.reading = d
      /\ pass.read => client' = client /\ d = pass.reading
      /\ ~pass.read => reports = {} /\ pass.todo = enabled
      /\ inTask /\ inTask'
  BY <1>3, CallReads
<1>9. /\ passes' = passes /\ reportProblemsOnce' = reportProblemsOnce /\ enabled' = enabled
      /\ reports' = reports \cup new
  BY <1>1 DEF Calls, options
<1>10. CountOK'
  BY <1>2, <1>8, <1>9 DEF CountOK, Inv
<1>11. TaskOK' /\ ReadOK' /\ ShareOK'
  <2> HIDE DEF new
  <2> QED
    BY <1>3, <1>6, CallTask, CallShares
<1>12. ShownOK'
  <2>1. Shown' = Shown
    BY <1>5, <1>9 DEF Shown
  <2>2. Analysis \in Done' <=> Analysis \in Done
    BY <1>2, <1>8, <1>9 DEF Done
  <2>3. CASE pass.read
    BY <1>2, <1>8, <1>9, <2>1, <2>2, <2>3 DEF ShownOK, Inv
  <2>4. CASE ~pass.read
    <3>1. Shown = {} /\ Analysis \notin Done
      BY <1>8, <2>4 DEF Shown, Done
    <3> QED
      BY <2>1, <2>2, <3>1 DEF ShownOK
  <2> QED
    BY <2>3, <2>4
<1> QED
  BY <1>7, <1>10, <1>11, <1>12 DEF Inv

-----------------------------------------------------------------------------
(* What lintai/analysis reports of d, with messages of the client. *)
LEMMA AnalysisShares ==
  ASSUME NEW d \in SUBSET Diagnostics, NEW messages \in SUBSET (Problems \cup LoadErrors)
  PROVE  /\ SharesOf(d, {Analysis}, AnalysisReports(d, messages))
         /\ AnalysisReports(d, messages)
              \subseteq [by : Rules \cup {Analysis},
                         as : {"own", "problem", "rule error", "orphan", "message"},
                         what : Diagnostics \cup Problems \cup LoadErrors \cup {Message}]
         /\ {r.what : r \in {r \in AnalysisReports(d, messages) : r.as = "problem"}} = messages
<1> DEFINE new == AnalysisReports(d, messages)
           As(x) == IF x.kind = "violation" THEN "orphan" ELSE "rule error"
           Own(x) == [by |-> Analysis, as |-> As(x), what |-> x]
<1>1. d # Nothing /\ \A x \in Diagnostics : x.rule # Analysis
  BY PluginAssumption
<1>2. \A x \in Diagnostics : Reporter(x) = Analysis <=> ~(x.kind = "violation" /\ x.rule \in known)
  BY <1>1 DEF Reporter
<1>3. ASSUME NEW q \in new
      PROVE  \/ \E x \in messages : q = [by |-> Analysis, as |-> "problem", what |-> x]
             \/ \E x \in d : Reporter(x) = Analysis /\ q = Own(x)
  <2>1. CASE \E x \in messages : q = Report(Analysis, "problem", x)
    BY <2>1 DEF Report
  <2>2. CASE \E x \in RuleErrors(d) : q = Report(Analysis, "rule error", x)
    BY <1>2, <2>2 DEF Report, RuleErrors
  <2>3. CASE \E x \in Orphans(d) : q = Report(Analysis, "orphan", x)
    BY <1>2, <2>3 DEF Report, Orphans
  <2> QED
    BY <2>1, <2>2, <2>3 DEF AnalysisReports
<1>4. \A x \in messages : [by |-> Analysis, as |-> "problem", what |-> x] \in new
  BY DEF AnalysisReports, Report
<1>5. ASSUME NEW x \in d, Reporter(x) = Analysis
      PROVE  Own(x) \in new
  <2>1. CASE x.kind = "violation"
    <3>1. x \in Orphans(d)
      BY <1>2, <1>5, <2>1 DEF Orphans
    <3>2. Report(Analysis, "orphan", x) \in AnalysisReports(d, messages)
      BY <3>1 DEF AnalysisReports
    <3> QED
      BY <2>1, <3>2 DEF Report
  <2>2. CASE x.kind # "violation"
    <3>1. x \in RuleErrors(d)
      BY <2>2 DEF RuleErrors
    <3>2. Report(Analysis, "rule error", x) \in AnalysisReports(d, messages)
      BY <3>1 DEF AnalysisReports
    <3> QED
      BY <2>2, <3>2 DEF Report
  <2> QED
    BY <2>1, <2>2
<1>13. \A x : Own(x).what = x /\ Own(x).as # "problem"
  OBVIOUS
<1>14. ASSUME NEW x \in d
       PROVE  Own(x) \in [by : Rules \cup {Analysis},
                          as : {"own", "problem", "rule error", "orphan", "message"},
                          what : Diagnostics \cup Problems \cup LoadErrors \cup {Message}]
  BY <1>1
<1> HIDE DEF new, Own
<1>6. \A x \in Diagnostics : x \notin messages /\ x # Message
  BY PluginAssumption
<1>7. Message \notin messages /\ Message \notin d
  BY PluginAssumption
<1>8. ASSUME NEW x \in Diagnostics
      PROVE  IF d # Nothing /\ x \in d /\ Reporter(x) \in {Analysis}
             THEN \E r \in new : {q \in new : q.what = x} = {r}
             ELSE {q \in new : q.what = x} = {}
  <2>1. \A q \in new : q.what = x =>
          x \in d /\ Reporter(x) = Analysis /\ q = Own(x)
    <3> SUFFICES ASSUME NEW q \in new, q.what = x
                 PROVE  x \in d /\ Reporter(x) = Analysis /\ q = Own(x)
      OBVIOUS
    <3>1. ~\E y \in messages : q = [by |-> Analysis, as |-> "problem", what |-> y]
      BY <1>6
    <3>2. PICK y \in d : Reporter(y) = Analysis /\ q = Own(y)
      BY <1>3, <3>1
    <3>3. y = x
      BY <1>13, <3>2
    <3> QED
      BY <3>2, <3>3
  <2>2. CASE x \in d /\ Reporter(x) = Analysis
    <3>1. Own(x) \in new
      BY <1>5, <2>2
    <3>2. {q \in new : q.what = x} = {Own(x)}
      BY <1>13, <2>1, <3>1
    <3> QED
      BY <1>1, <2>2, <3>1, <3>2
  <2>3. CASE ~(x \in d /\ Reporter(x) = Analysis)
    BY <2>1, <2>3
  <2> QED
    BY <2>2, <2>3
<1>9. \A q \in new : q.what # Message
  <2>1. \A x \in messages : [by |-> Analysis, as |-> "problem", what |-> x].what = x
    OBVIOUS
  <2> QED
    BY <1>3, <1>7, <1>13, <2>1
<1>10. SharesOf(d, {Analysis}, new)
  BY <1>1, <1>8, <1>9 DEF SharesOf
<1>11. new \subseteq [by : Rules \cup {Analysis},
                      as : {"own", "problem", "rule error", "orphan", "message"},
                      what : Diagnostics \cup Problems \cup LoadErrors \cup {Message}]
  <2> SUFFICES ASSUME NEW q \in new
               PROVE  q \in [by : Rules \cup {Analysis},
                             as : {"own", "problem", "rule error", "orphan", "message"},
                             what : Diagnostics \cup Problems \cup LoadErrors \cup {Message}]
    OBVIOUS
  <2>1. CASE \E x \in messages : q = [by |-> Analysis, as |-> "problem", what |-> x]
    BY <2>1
  <2>2. CASE \E x \in d : Reporter(x) = Analysis /\ q = Own(x)
    BY <1>14, <2>2
  <2> QED
    BY <1>3, <2>1, <2>2
<1>12. {r.what : r \in {r \in new : r.as = "problem"}} = messages
  <2>1. \A r \in new : r.as = "problem" => r.what \in messages
    <3>1. \A x \in messages : [by |-> Analysis, as |-> "problem", what |-> x].what = x
      OBVIOUS
    <3> QED
      BY <1>3, <1>13, <3>1
  <2>2. \A x \in messages : \E r \in new : r.as = "problem" /\ r.what = x
    BY <1>4
  <2> QED
    BY <2>1, <2>2
<1> QED
  BY <1>10, <1>11, <1>12 DEF new

LEMMA lintAnalysisInv == ASSUME Inv, lintAnalysis PROVE Inv'
<1>1. PICK d \in Readings :
        /\ diagnosticsFor(pass.file, pass.text, d)
        /\ IF d = Nothing
           THEN /\ Calls(Analysis, d, {Report(Analysis, "message", Message)})
                /\ UNCHANGED <<problemsReported, loadErrorsReported, analysed>>
           ELSE /\ Calls(Analysis, d, AnalysisReports(d, problems(client'.result) \cup loadErrors))
                /\ problemsReported' = (problemsReported \/ reportProblemsOnce)
                /\ loadErrorsReported' = TRUE
                /\ analysed' = analysed + 1
  BY DEF lintAnalysis
<1>2. Analysis \in pass.todo /\ TypeOK /\ CountOK
  BY DEF lintAnalysis, Inv
<1> DEFINE messages == problems(client'.result) \cup loadErrors
           new == IF d = Nothing THEN {Report(Analysis, "message", Message)} ELSE AnalysisReports(d, messages)
<1>3. Calls(Analysis, d, new)
  BY <1>1
<1>4. CallContext(Analysis, d, new)
  BY <1>1, <1>2, <1>3 DEF CallContext
<1>5. /\ pass'.todo = pass.todo \ {Analysis} /\ pass'.read /\ pass'.reading = d
      /\ pass.read => client' = client /\ d = pass.reading
      /\ ~pass.read => reports = {} /\ pass.todo = enabled
      /\ inTask /\ inTask'
      /\ client' \in [loaded : BOOLEAN, result : Results \cup {Unloaded}]
  <2> HIDE DEF new
  <2> QED
    BY <1>4, CallReads
<1>6. /\ passes' = passes /\ reportProblemsOnce' = reportProblemsOnce /\ enabled' = enabled
      /\ reports' = reports \cup new
  BY <1>3 DEF Calls, options
<1>7. messages \in SUBSET (Problems \cup LoadErrors)
  BY <1>5, ResultsType DEF problems, loadErrors
<1>8. /\ SharesOf(d, {Analysis}, new)
      /\ new \subseteq [by : Rules \cup {Analysis},
                        as : {"own", "problem", "rule error", "orphan", "message"},
                        what : Diagnostics \cup Problems \cup LoadErrors \cup {Message}]
      /\ {r.what : r \in {r \in new : r.as = "problem"}} = IF d = Nothing THEN {} ELSE messages
  <2>1. CASE d = Nothing
    <3>1. new = {[by |-> Analysis, as |-> "message", what |-> Message]}
      BY <2>1 DEF Report
    <3>2. \A q \in new : q.what = Message /\ q.as = "message"
      BY <3>1
    <3>3. \A x \in Diagnostics : x # Message
      BY PluginAssumption
    <3>4. SharesOf(d, {Analysis}, new)
      BY <2>1, <3>1, <3>2, <3>3 DEF SharesOf
    <3>5. {r \in new : r.as = "problem"} = {}
      BY <3>2
    <3>6. {r.what : r \in {r \in new : r.as = "problem"}} = {}
      BY <3>5
    <3>7. new \subseteq [by : Rules \cup {Analysis},
                         as : {"own", "problem", "rule error", "orphan", "message"},
                         what : Diagnostics \cup Problems \cup LoadErrors \cup {Message}]
      <4>1. [by |-> Analysis, as |-> "message", what |-> Message]
              \in [by : Rules \cup {Analysis},
                   as : {"own", "problem", "rule error", "orphan", "message"},
                   what : Diagnostics \cup Problems \cup LoadErrors \cup {Message}]
        OBVIOUS
      <4> HIDE DEF new
      <4> QED
        BY <3>1, <4>1
    <3> QED
      BY <2>1, <3>4, <3>6, <3>7
  <2>2. CASE d # Nothing
    <3>1. d \in SUBSET Diagnostics
      BY <2>2 DEF Readings
    <3>2. new = AnalysisReports(d, messages)
      BY <2>2
    <3> HIDE DEF messages, new
    <3> QED
      BY <1>7, <2>2, <3>1, <3>2, AnalysisShares
  <2> QED
    BY <2>1, <2>2
<1> HIDE DEF new
<1>9. CountOK'
  <2>1. analysed \in Nat /\ passes \in Nat /\ analysed < passes
    BY <1>2, Counters DEF CountOK
  <2>2. Analysis \notin pass'.todo
    BY <1>5
  <2>3. CASE d = Nothing
    BY <1>1, <1>2, <1>6, <2>2, <2>3 DEF CountOK
  <2>4. CASE d # Nothing
    <3>1. /\ analysed' = analysed + 1 /\ loadErrorsReported'
          /\ reportProblemsOnce => problemsReported'
      BY <1>1, <2>4
    <3>2. analysed' > 0 /\ analysed' <= passes
      BY <2>1, <3>1
    <3> QED
      BY <1>6, <2>2, <3>1, <3>2 DEF CountOK
  <2> QED
    BY <2>3, <2>4
<1>10. TypeOK'
  <2>1. problemsReported' \in BOOLEAN /\ loadErrorsReported' \in BOOLEAN
    <3>1. CASE d = Nothing
      BY <1>1, <1>2, <3>1 DEF TypeOK
    <3>2. CASE d # Nothing
      BY <1>1, <1>2, <3>2 DEF TypeOK
    <3> QED
      BY <3>1, <3>2
  <2>2. analysed' \in 0..MaxPasses
    <3>1. /\ analysed \in Nat /\ passes \in Nat /\ analysed < passes /\ passes <= MaxPasses
          /\ MaxPasses \in Nat
      BY <1>2, Counters DEF CountOK
    <3>2. analysed' = analysed \/ analysed' = analysed + 1
      BY <1>1
    <3> QED
      BY <3>1, <3>2
  <2> QED
    BY <1>4, <1>8, <2>1, <2>2, CallTypes
<1>11. TaskOK' /\ ReadOK' /\ ShareOK'
  BY <1>4, <1>8, CallTask, CallShares
<1>12. ShownOK'
  <2>1. Shown = {}
    <3>1. CASE pass.read
      BY <1>2, <3>1 DEF ShownOK, Inv
    <3>2. CASE ~pass.read
      BY <1>5, <3>2 DEF Shown
    <3> QED
      BY <3>1, <3>2
  <2>2. Shown' = IF d = Nothing THEN {} ELSE messages
    <3> DEFINE Sh(rs) == {r.what : r \in {r \in rs : r.as = "problem"}}
    <3>1. Sh(reports \cup new) = Sh(reports) \cup Sh(new)
      OBVIOUS
    <3>2. Sh(reports) = {} /\ Shown' = Sh(reports')
      BY <2>1 DEF Shown
    <3>3. Sh(new) = IF d = Nothing THEN {} ELSE messages
      BY <1>8
    <3> HIDE DEF Sh, messages
    <3> QED
      BY <1>6, <3>1, <3>2, <3>3
  <2>3. Analysis \notin pass'.todo /\ pass'.reading = d
    BY <1>5
  <2>4. CASE d = Nothing
    BY <2>2, <2>3, <2>4 DEF ShownOK
  <2>5. CASE d # Nothing
    <3>1. analysed \in Nat /\ analysed' = analysed + 1
      BY <1>1, <1>2, <2>5, Counters
    <3>2. reportProblemsOnce => (problemsReported <=> analysed > 0) /\ (loadErrorsReported <=> analysed > 0)
      BY <1>2 DEF CountOK
    <3>3. reportProblemsOnce /\ analysed' > 1 <=> reportProblemsOnce /\ analysed > 0
      BY <3>1
    <3>4. messages = IF reportProblemsOnce /\ analysed' > 1 THEN {} ELSE client'.result.problems \cup LoadErrors
      <4>1. CASE reportProblemsOnce /\ analysed > 0
        BY <3>2, <3>3, <4>1 DEF problems, loadErrors
      <4>2. CASE ~(reportProblemsOnce /\ analysed > 0)
        BY <3>2, <3>3, <4>2 DEF problems, loadErrors
      <4> QED
        BY <4>1, <4>2
    <3> HIDE DEF messages
    <3> QED
      BY <1>6, <2>2, <2>3, <2>5, <3>4 DEF ShownOK
  <2> QED
    BY <2>4, <2>5
<1> QED
  BY <1>9, <1>10, <1>11, <1>12 DEF Inv

-----------------------------------------------------------------------------
LEMMA LintInv == ASSUME Inv, NEW f \in Files, NEW t \in Texts, Lint(f, t) PROVE Inv'
<1> USE DEF Inv
<1>1. /\ pass' = [file |-> f, text |-> t, todo |-> enabled, read |-> FALSE, reading |-> Nothing]
      /\ pass'.file = f /\ pass'.text = t /\ pass'.todo = enabled /\ pass'.reading = Nothing
      /\ ~pass'.read
      /\ reports' = {} /\ inTask' /\ passes' = passes + 1 /\ passes < MaxPasses
      /\ UNCHANGED <<options, client, problemsReported, loadErrorsReported, disk, passCache, analysed>>
  BY DEF Lint
<1>2. /\ passes \in Nat /\ analysed \in Nat /\ MaxPasses \in Nat /\ analysed <= passes
      /\ TypeOK /\ TaskOK
  BY Counters DEF CountOK
<1>3. /\ seen' \in [found : [Files -> SUBSET SUBSET Diagnostics],
                    disk : [Files -> SUBSET (Texts \cup {Nothing})]]
      /\ \A x \in Files : disk[x] \in seen'.disk[x] /\ client.result.found[x] \in seen'.found[x]
  <2>1. CASE inTask
    BY <1>2, <2>1 DEF Lint, StartTask, TypeOK, TaskOK
  <2>2. CASE ~inTask
    <3>1. seen' = [found |-> [x \in Files |-> {client.result.found[x]}],
                   disk |-> [x \in Files |-> {disk[x]}]]
      BY <2>2 DEF Lint, StartTask
    <3>2. \A x \in Files : client.result.found[x] \in SUBSET Diagnostics /\ disk[x] \in Texts \cup {Nothing}
      BY <1>2, ResultsType DEF TypeOK
    <3>3. \A x \in Files : {client.result.found[x]} \in SUBSET SUBSET Diagnostics
      BY <3>2
    <3>4. [x \in Files |-> {client.result.found[x]}] \in [Files -> SUBSET SUBSET Diagnostics]
      BY <3>3
    <3> QED
      BY <3>1, <3>2, <3>4
  <2> QED
    BY <2>1, <2>2
<1>4. TypeOK'
  <2>1. pass' \in [file : {Nothing} \cup Files, text : {Nothing} \cup Texts, todo : SUBSET enabled,
                   read : BOOLEAN, reading : Readings]
    BY <1>1 DEF Readings
  <2>2. passes' \in 0..MaxPasses
    BY <1>1, <1>2
  <2> QED
    BY <1>1, <1>2, <1>3, <2>1, <2>2 DEF TypeOK, options
<1>5. CountOK'
  <2>1. analysed' < passes' /\ analysed' <= passes'
    BY <1>1, <1>2
  <2> QED
    BY <1>1, <2>1 DEF CountOK, options
<1>6. TaskOK'
  <2>1. CASE inTask
    BY <1>1, <1>2, <1>3, <2>1 DEF TaskOK, EntryOK, Lint, StartTask, options
  <2>2. CASE ~inTask
    BY <1>1, <1>2, <1>3, <2>2 DEF TaskOK
  <2> QED
    BY <2>1, <2>2
<1>7. ReadOK' /\ ShareOK' /\ ShownOK'
  BY <1>1 DEF ReadOK, ShareOK, ShownOK, Shown, options
<1> QED
  BY <1>4, <1>5, <1>6, <1>7

(* What the plugin keeps of a pass changes in the steps of its rules only. *)
LEMMA QuietInv ==
  ASSUME Inv, UNCHANGED <<options, problemsReported, loadErrorsReported, pass, reports, passes, analysed>>,
         TypeOK', TaskOK',
         inTask' => inTask /\ client' = client /\ passCache' = passCache,
         inTask /\ ~inTask' => pass.todo = {},
         \A x \in Files : /\ seen.disk[x] \subseteq seen'.disk[x]
                          /\ seen.found[x] \subseteq seen'.found[x]
  PROVE  Inv'
<1> USE DEF Inv
<1>1. CountOK'
  BY DEF CountOK, options
<1>2. ReadOK'
  BY DEF ReadOK, EntryOK, options
<1>3. Done' = Done /\ Shown' = Shown
  BY DEF Done, Shown, options
<1>4. ShareOK'
  BY DEF ShareOK, Share, About, Done, Reporter, options
<1>5. ShownOK'
  BY <1>3 DEF ShownOK, options
<1> QED
  BY <1>1, <1>2, <1>4, <1>5

LEMMA WorldInv ==
  ASSUME Inv, \/ ClearCache \/ ClientEvent
              \/ \E f \in Files, t \in Texts \cup {Nothing} : DiskChanges(f, t)
              \/ UNCHANGED vars
  PROVE  Inv'
<1>1. TypeOK /\ TaskOK
  BY DEF Inv
<1>2. CASE ClearCache
  <2>1. TypeOK'
    BY <1>1, <1>2 DEF ClearCache, TypeOK, options
  <2>2. TaskOK'
    BY <1>1, <1>2 DEF ClearCache, TaskOK
  <2> QED
    BY <1>2, <2>1, <2>2, QuietInv DEF ClearCache
<1>3. CASE ClientEvent
  <2>1. client' \in [loaded : BOOLEAN, result : Results \cup {Unloaded}]
    <3>1. CASE client' = [loaded |-> FALSE, result |-> Unloaded]
      BY <3>1
    <3>2. CASE client' \in [loaded : {TRUE}, result : Results]
      BY <3>2
    <3> QED
      BY <1>3, <3>1, <3>2 DEF ClientEvent
  <2>2. TypeOK'
    BY <1>1, <1>3, <2>1 DEF ClientEvent, TypeOK, options
  <2>3. TaskOK'
    BY <1>1, <1>3 DEF ClientEvent, TaskOK
  <2> QED
    BY <1>3, <2>2, <2>3, QuietInv DEF ClientEvent
<1>4. ASSUME NEW f \in Files, NEW t \in Texts \cup {Nothing}, DiskChanges(f, t)
      PROVE  Inv'
  <2>1. /\ UNCHANGED <<options, client, problemsReported, loadErrorsReported, passCache, inTask, pass,
                       reports, passes, analysed>>
        /\ disk' = [disk EXCEPT ![f] = t]
        /\ seen' = [seen EXCEPT !.disk = [seen.disk EXCEPT ![f] = @ \cup {t}]]
    BY <1>4 DEF DiskChanges
  <2>2. /\ seen \in [found : [Files -> SUBSET SUBSET Diagnostics],
                     disk : [Files -> SUBSET (Texts \cup {Nothing})]]
        /\ disk \in [Files -> Texts \cup {Nothing}]
    BY <1>1 DEF TypeOK
  <2>3. /\ seen'.found = seen.found
        /\ seen'.disk = [seen.disk EXCEPT ![f] = @ \cup {t}]
        /\ seen' \in [found : [Files -> SUBSET SUBSET Diagnostics],
                      disk : [Files -> SUBSET (Texts \cup {Nothing})]]
    BY <2>1, <2>2
  <2>4. \A x \in Files : /\ seen.disk[x] \subseteq seen'.disk[x]
                         /\ disk[x] \in seen.disk[x] => disk'[x] \in seen'.disk[x]
    BY <2>1, <2>2, <2>3
  <2>5. TypeOK'
    BY <1>1, <2>1, <2>2, <2>3 DEF TypeOK, options
  <2>6. TaskOK'
    BY <1>1, <2>1, <2>3, <2>4 DEF TaskOK, EntryOK, options
  <2> QED
    BY <1>4, <2>1, <2>3, <2>4, <2>5, <2>6, QuietInv
<1>5. CASE UNCHANGED vars
  <2>1. TypeOK' /\ TaskOK'
    BY <1>1, <1>5 DEF vars, options, TypeOK, TaskOK, EntryOK
  <2> QED
    BY <1>5, <2>1, QuietInv DEF vars
<1> QED
  BY <1>2, <1>3, <1>4, <1>5

LEMMA NextInv == Inv /\ [Next]_vars => Inv'
<1> SUFFICES ASSUME Inv, [Next]_vars PROVE Inv'
  OBVIOUS
<1>1. ASSUME NEW id \in Rules, lintRule(id) PROVE Inv'
  BY <1>1, lintRuleInv
<1>2. CASE lintAnalysis
  BY <1>2, lintAnalysisInv
<1>3. ASSUME NEW f \in Files, NEW t \in Texts, Lint(f, t) PROVE Inv'
  BY <1>3, LintInv
<1> QED
  BY <1>1, <1>2, <1>3, WorldInv DEF Next

LEMMA Invariance == Spec => []Inv
BY InitInv, NextInv, PTL DEF Spec

-----------------------------------------------------------------------------
(* Every variable always has a value of its kind. *)
THEOREM PluginTypeCorrect == Spec => []TypeOK
<1>1. Inv => TypeOK
  BY DEF Inv
<1> QED
  BY <1>1, Invariance, PTL

(* Every diagnostic that a pass has read is reported by one rule, once,    *)
(* whatever the order of the rules and whatever changes meanwhile          *)
(* (plugin.ts:107-132, 141-146, 165-178).                                  *)
THEOREM OneReporter == Spec => []ReportedOnce
<1>1. Inv => ReportedOnce
  <2> SUFFICES ASSUME Inv, Passed PROVE ReportedOnce
    BY DEF ReportedOnce
  <2>1. Done = enabled /\ ShareOK /\ pass.read
    BY DEF Passed, Inv, Done
  <2>2. ASSUME NEW x \in Diagnostics
        PROVE  Cardinality({r \in reports : r.what = x})
                 = IF pass.reading # Nothing /\ x \in pass.reading /\ Reporter(x) \in enabled THEN 1 ELSE 0
    <3>1. CASE Share(x)
      <4>1. PICK r \in reports : {q \in reports : q.what = x} = {r}
        BY <2>1, <3>1 DEF ShareOK, About
      <4> QED
        BY <2>1, <3>1, <4>1, FS_Singleton DEF Share
    <3>2. CASE ~Share(x)
      BY <2>1, <3>2, FS_EmptySet DEF ShareOK, About, Share
    <3> QED
      BY <3>1, <3>2
  <2> QED
    BY <2>1, <2>2 DEF ReportedOnce, ShareOK, About
<1> QED
  BY <1>1, Invariance, PTL

(* No pass shows what was replaced before its task began, and it shows no  *)
(* diagnostics of another text (plugin.ts:104-131, reports.ts:8-20).       *)
THEOREM PassesAreCurrent == Spec => []ReadingIsCurrent
<1>1. Inv => ReadingIsCurrent
  BY DEF Inv, ReadOK, EntryOK, ReadingIsCurrent, Passed
<1> QED
  BY <1>1, Invariance, PTL

(* Problems are shown by every pass, or by the first on a command line     *)
(* (plugin.ts:157-164, client.ts:279-310).                                 *)
THEOREM ProblemsShown == Spec => []ProblemsAreShown
<1>1. Inv => ProblemsAreShown
  BY DEF Inv, ShownOK, Shown, Done, ProblemsAreShown, Passed
<1> QED
  BY <1>1, Invariance, PTL
=============================================================================

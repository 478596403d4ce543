------------------------- MODULE NetBSDClockProofs -------------------------
(***************************************************************************)
(* Proofs about NetBSDClock, for any finite set of processes, any number   *)
(* of processors and words, with or without a statistics clock, and any    *)
(* pair of rates of which one divides the other: the types; when profprocs counts the profiled processes; when a  *)
(* processor's clock runs at the rate of the divider; and how torn a frame *)
(* can be.                                                                 *)
(***************************************************************************)
EXTENDS NetBSDClock, TLAPS, FiniteSetTheorems

Profiled == {p \in Proc : proc[p].profiled}

(* The processes that have been counted: of the one whose count is being   *)
(* changed the flag is ahead.                                              *)
Counted == {p \in Proc : proc[p].profiled # (p \in Changing)}

DividerFor(n) == IF stathz # 0 /\ n > 0 THEN psratio ELSE 1

RateFor(d) == IF d = 1 THEN stathz ELSE profhz

-----------------------------------------------------------------------------
(* As long as no two changes overlap, the one under way has the counter to *)
(* itself.                                                                 *)
CountInv ==
  ~overlap =>
    /\ \A p, q \in Changing : p = q
    /\ profprocs = Cardinality(Counted)
    /\ psdiv = DividerFor(profprocs)
    /\ \A p \in Proc : proc[p].lock = "store" => proc[p].seen = profprocs

(* What a processor knows of the divider, by the changes it has missed.    *)
InStep(r) ==
  /\ r.at # "div" /\ r.changes = 0 => r.psdiv = psdiv
  /\ r.at \in {"out", "panel", "stat", "count"}
     /\ r.changes < 2 /\ r.psdiv = psdiv
       => r.rate = RateFor(psdiv)

RateInv == \A c \in Cpu : InStep(cpu[c])

(* Only the primary processor writes, from the first word to the last, and *)
(* what the client has copied was there before.                            *)
PanelInv ==
  /\ \A c \in Cpu : cpu[c].at = "panel" => c = Primary
  /\ cpu[Primary].at # "panel" => cpu[Primary].word = 1
  /\ \A w \in Words :
       panel[w] = IF 1 < cpu[Primary].word /\ cpu[Primary].word =< w
                  THEN panel[1] - 1 ELSE panel[1]
  /\ \A w \in Words : reader.copied[w] =< panel[w]
  /\ FrameOrdered

ClockInv == CountInv /\ RateInv /\ PanelInv

-----------------------------------------------------------------------------
ProcRecords ==
  [profiled : BOOLEAN, seen : Int, lock : {"free", "load", "store"}]

CpuRecords ==
  [at : {"out", "panel", "stat", "div", "cnt", "rate", "count"},
   word : Words, psdiv : {1, psratio}, pscnt : 1 .. psratio,
   rate : {stathz, profhz}, changes : 0 .. 2]

(* The ratio of the rates is 1 or more.                                    *)
LEMMA Ratio == psratio \in Nat /\ psratio >= 1
<1>1. clockrate \in Nat /\ clockrate > 0
  BY ClockAssumption DEF clockrate
<1>2. profhz \in Nat /\ profhz >= clockrate /\ profhz % clockrate = 0
  BY ClockAssumption
<1>3. psratio \in Int /\ profhz = clockrate * psratio
  BY <1>1, <1>2 DEF psratio
<1>4. psratio > 0
  <2>1. ASSUME psratio =< 0 PROVE clockrate * psratio =< 0
    BY <1>1, <1>3, <2>1
  <2> QED BY <1>1, <1>2, <1>3, <2>1
<1> QED BY <1>3, <1>4

LEMMA WordFacts == 1 \in Words /\ NWords \in Words
BY ClockAssumption DEF Words

LEMMA ClockInit == Init => TypeOK /\ ClockInv
<1> SUFFICES ASSUME Init PROVE TypeOK /\ ClockInv
  OBVIOUS
<1>1. TypeOK
  <2>1. cpu \in [Cpu -> CpuRecords]
    <3>1. [at |-> "out", word |-> 1, psdiv |-> 1, pscnt |-> 1,
           rate |-> stathz, changes |-> 0] \in CpuRecords
      BY Ratio, WordFacts DEF CpuRecords
    <3> QED BY <3>1 DEF Init
  <2>2. proc \in [Proc -> ProcRecords]
    BY DEF Init, ProcRecords
  <2>3. reader \in [at : {"start", "socket", "read", "send", "gone"},
                   word : Words, copied : [Words -> Nat]]
    BY WordFacts DEF Init, NoReader
  <2>4. psdiv \in {1, psratio} /\ profprocs \in Int /\ changes \in Nat
    BY DEF Init
  <2>5. panel \in [Words -> Nat]
    BY DEF Init
  <2>6. overlap \in BOOLEAN
    BY Zenon DEF Init
  <2> QED BY <2>1, <2>2, <2>3, <2>4, <2>5, <2>6
          DEF TypeOK, CpuRecords, ProcRecords
<1>2. CountInv
  <2>1. Changing = {}
    BY DEF Init, Changing
  <2>2. \A p \in Proc : proc[p].profiled = FALSE /\ (p \in Changing) = FALSE
    BY <2>1 DEF Init
  <2>3. Counted = {}
    BY <2>2, Zenon DEF Counted
  <2> QED BY <2>1, <2>3, FS_EmptySet DEF Init, CountInv, DividerFor
<1>3. RateInv
  BY DEF Init, RateInv, InStep, RateFor
<1>4. PanelInv
  BY ClockAssumption, WordFacts DEF Init, PanelInv, FrameOrdered, NoReader
<1> QED BY <1>1, <1>2, <1>3, <1>4 DEF ClockInv

-----------------------------------------------------------------------------
(* Starts and stops of profiling: types.                                   *)
LEMMA ChangeTypes ==
  ASSUME TypeOK, NEW p \in Proc,
         changeprofclock(p) \/ loadprofprocs(p) \/ storeprofprocs(p)
  PROVE  TypeOK'
<1>1. CASE changeprofclock(p)
  BY <1>1 DEF changeprofclock, TypeOK
<1>2. CASE loadprofprocs(p)
  BY <1>2 DEF loadprofprocs, TypeOK
<1>3. CASE storeprofprocs(p)
  <2>0. proc \in [Proc -> ProcRecords] /\ cpu \in [Cpu -> CpuRecords]
    BY DEF TypeOK, ProcRecords, CpuRecords
  <2>5. proc' \in [Proc -> ProcRecords]
    <3> DEFINE r == [proc[p] EXCEPT !.lock = "free", !.seen = 0]
    <3>0. 0 \in Int
      OBVIOUS
    <3>1. r \in ProcRecords
      BY <2>0, <3>0, Zenon DEF ProcRecords
    <3>2. proc' = [proc EXCEPT ![p] = r]
      BY <1>3, <2>0 DEF storeprofprocs
    <3> QED BY <2>0, <3>1, <3>2
  <2>1. profprocs' \in Int
    BY <1>3, <2>0 DEF storeprofprocs, ProcRecords
  <2>2. psdiv' \in {1, psratio}
    BY <1>3 DEF storeprofprocs, Divider, TypeOK
  <2>3. cpu' \in [Cpu -> CpuRecords]
    <3>1. ASSUME NEW c \in Cpu
          PROVE  [cpu[c] EXCEPT !.changes = IF @ < 2 THEN @ + 1 ELSE 2]
                   \in CpuRecords
      BY <2>0 DEF CpuRecords
    <3> QED BY <1>3, <2>0, <3>1 DEF storeprofprocs
  <2>4. UNCHANGED <<panel, reader, changes, overlap>>
    BY <1>3 DEF storeprofprocs
  <2> QED BY <2>1, <2>2, <2>3, <2>4, <2>5 DEF TypeOK, ProcRecords, CpuRecords
<1> QED BY <1>1, <1>2, <1>3

(* ... and the counter.                                                    *)
LEMMA ChangeCounts ==
  ASSUME TypeOK, CountInv, NEW p \in Proc,
         changeprofclock(p) \/ loadprofprocs(p) \/ storeprofprocs(p)
  PROVE  CountInv'
<1> SUFFICES ASSUME ~overlap' PROVE CountInv'
  BY DEF CountInv
<1>0. proc \in [Proc -> ProcRecords] /\ ~overlap
  BY DEF TypeOK, ProcRecords, changeprofclock, loadprofprocs, storeprofprocs
<1>1. CASE changeprofclock(p)
  <2>1. /\ Changing = {} /\ proc' \in [Proc -> ProcRecords]
        /\ \A q \in Proc : q # p => proc'[q] = proc[q]
        /\ proc'[p].lock = "load" /\ proc'[p].profiled = ~proc[p].profiled
        /\ UNCHANGED <<profprocs, psdiv>>
    BY <1>0, <1>1 DEF changeprofclock, ProcRecords
  <2>2. Changing' = {p}
    BY <2>1 DEF Changing
  <2>3. Counted' = Counted
    <3>1. \A q \in Proc : q # p =>
            ((proc'[q].profiled # (q \in Changing'))
               <=> (proc[q].profiled # (q \in Changing)))
      BY <2>1, <2>2
    <3>2. (proc'[p].profiled # (p \in Changing'))
            <=> (proc[p].profiled # (p \in Changing))
      BY <1>0, <2>1, <2>2 DEF ProcRecords
    <3> QED BY <3>1, <3>2 DEF Counted
  <2>4. \A q \in Proc : proc'[q].lock # "store"
    BY <2>1 DEF Changing
  <2> QED BY <1>0, <2>1, <2>2, <2>3, <2>4 DEF CountInv
<1>2. CASE loadprofprocs(p)
  <2>1. /\ \A q \in Proc : q # p => proc'[q] = proc[q]
        /\ proc'[p].lock = "store" /\ proc'[p].profiled = proc[p].profiled
        /\ proc'[p].seen = profprocs /\ proc[p].lock = "load"
        /\ UNCHANGED <<profprocs, psdiv>>
    BY <1>0, <1>2 DEF loadprofprocs, ProcRecords
  <2>2. Changing' = Changing
    BY <2>1 DEF Changing
  <2>3. Counted' = Counted
    BY <2>1, <2>2, Zenon DEF Counted
  <2> QED BY <1>0, <2>1, <2>2, <2>3 DEF CountInv
<1>3. CASE storeprofprocs(p)
  <2>1. /\ \A q \in Proc : q # p => proc'[q] = proc[q]
        /\ proc'[p].lock = "free" /\ proc'[p].profiled = proc[p].profiled
        /\ proc[p].lock = "store" /\ proc[p].profiled \in BOOLEAN
    BY <1>0, <1>3 DEF storeprofprocs, ProcRecords
  <2>2. Changing = {p} /\ Changing' = {}
    BY <1>0, <2>1 DEF Changing, CountInv
  <2>3. proc[p].seen = profprocs /\ profprocs = Cardinality(Counted)
        /\ psdiv = DividerFor(profprocs)
    BY <1>0, <2>1 DEF CountInv
  <2>4. IsFiniteSet(Counted)
    BY ClockAssumption, FS_Subset DEF Counted
  <2>5. Cardinality(Counted) \in Nat
    BY <2>4, FS_CardinalityType
  <2>6. \A q \in Proc \ {p} : q \in Counted' <=> q \in Counted
    BY <2>1, <2>2 DEF Counted
  <2>7. CASE proc[p].profiled
    <3>1. p \notin Counted /\ p \in Counted'
      BY <2>1, <2>2, <2>7 DEF Counted
    <3>2. Counted' = Counted \union {p}
      BY <2>6, <3>1 DEF Counted
    <3>3. Cardinality(Counted') = Cardinality(Counted) + 1
      BY <2>4, <3>1, <3>2, FS_AddElement
    <3>4. profprocs' = profprocs + 1
      BY <1>3, <2>3, <2>7 DEF storeprofprocs
    <3>5. psdiv' = IF stathz # 0 /\ profprocs' = 1 THEN psratio ELSE psdiv
      BY <1>3, <2>7, <3>4, <2>3 DEF storeprofprocs, Divider
    <3>6. psdiv' = DividerFor(profprocs')
      BY <2>3, <2>5, <3>4, <3>5 DEF DividerFor
    <3>7. \A q \in Proc : proc'[q].lock # "store"
      BY <2>2 DEF Changing
    <3> QED BY <2>2, <2>3, <3>3, <3>4, <3>6, <3>7 DEF CountInv
  <2>8. CASE ~proc[p].profiled
    <3>1. p \in Counted /\ p \notin Counted'
      BY <2>1, <2>2, <2>8 DEF Counted
    <3>2. Counted' = Counted \ {p}
      BY <2>6, <3>1 DEF Counted
    <3>3. Cardinality(Counted') = Cardinality(Counted) - 1
          /\ Cardinality(Counted') \in Nat
      BY <2>4, <3>1, <3>2, FS_RemoveElement, FS_CardinalityType
    <3>4. profprocs' = profprocs - 1
      BY <1>3, <2>3, <2>8 DEF storeprofprocs
    <3>5. psdiv' = IF stathz # 0 /\ profprocs' = 0 THEN 1 ELSE psdiv
      BY <1>3, <2>8, <3>4, <2>3 DEF storeprofprocs, Divider
    <3>6. psdiv' = DividerFor(profprocs')
      BY <2>3, <2>5, <3>3, <3>4, <3>5 DEF DividerFor
    <3>7. \A q \in Proc : proc'[q].lock # "store"
      BY <2>2 DEF Changing
    <3> QED BY <2>2, <2>3, <3>3, <3>4, <3>6, <3>7 DEF CountInv
  <2> QED BY <2>1, <2>7, <2>8
<1> QED BY <1>1, <1>2, <1>3

(* ... what the processors know, and the panel.                            *)
LEMMA ChangeSeen ==
  ASSUME TypeOK, RateInv, PanelInv, NEW p \in Proc,
         changeprofclock(p) \/ loadprofprocs(p) \/ storeprofprocs(p)
  PROVE  RateInv' /\ PanelInv'
<1>1. CASE UNCHANGED <<psdiv, cpu>>
  <2>1. UNCHANGED <<panel, reader>>
    BY DEF changeprofclock, loadprofprocs, storeprofprocs
  <2> QED BY <1>1, <2>1 DEF RateInv, InStep, PanelInv, FrameOrdered
<1>2. CASE ~UNCHANGED <<psdiv, cpu>>
  <2>1. /\ psdiv' # psdiv /\ psdiv' \in {1, psratio} /\ psdiv \in {1, psratio}
        /\ cpu' = [c \in Cpu |-> [cpu[c] EXCEPT
                     !.changes = IF @ < 2 THEN @ + 1 ELSE 2]]
        /\ UNCHANGED <<panel, reader>>
    BY <1>2 DEF changeprofclock, loadprofprocs, storeprofprocs, Divider,
                TypeOK
  <2>2. ASSUME NEW c \in Cpu
        PROVE  /\ InStep(cpu[c])' /\ cpu'[c].at = cpu[c].at
               /\ cpu'[c].word = cpu[c].word
    <3> DEFINE r == cpu[c]
               n == IF r.changes < 2 THEN r.changes + 1 ELSE 2
    <3>1. r \in CpuRecords /\ InStep(r)
      BY DEF TypeOK, CpuRecords, RateInv
    <3>2. cpu'[c] = [r EXCEPT !.changes = n]
      BY <2>1
    <3>3. /\ cpu'[c].at = r.at /\ cpu'[c].word = r.word
          /\ cpu'[c].psdiv = r.psdiv /\ cpu'[c].rate = r.rate
          /\ cpu'[c].changes = n
      BY <3>1, <3>2 DEF CpuRecords
    <3>4. n # 0 /\ (n < 2 => r.changes = 0)
      BY <3>1 DEF CpuRecords
    <3> HIDE DEF n, r
    <3>5. InStep(cpu[c])'
      <4>1. cpu'[c].changes < 2 /\ r.at # "div" => cpu'[c].psdiv # psdiv'
        BY <2>1, <3>1, <3>3, <3>4 DEF InStep
      <4> QED BY <3>3, <3>4, <4>1 DEF InStep
    <3> QED BY <3>3, <3>5 DEF r
  <2> QED BY <2>1, <2>2, ClockAssumption DEF RateInv, PanelInv, FrameOrdered
<1> QED BY <1>1, <1>2

-----------------------------------------------------------------------------
(* A processor's record changes, and the panel may.                        *)
LEMMA HandlerSteps ==
  ASSUME TypeOK, CountInv, RateInv, NEW c \in Cpu, NEW r \in CpuRecords,
         Handler(c, r), InStep(r)
  PROVE  CountInv' /\ RateInv' /\ cpu' \in [Cpu -> CpuRecords]
<1>1. CountInv'
  BY DEF Handler, CountInv, Changing, Counted
<1>2. ASSUME NEW d \in Cpu PROVE InStep(cpu[d])'
  <2>1. cpu'[d] = IF d = c THEN r ELSE cpu[d]
    BY DEF Handler, TypeOK
  <2>2. InStep(cpu'[d])
    BY <2>1 DEF RateInv
  <2> QED BY <2>2 DEF Handler, InStep
<1> QED BY <1>1, <1>2 DEF Handler, RateInv, TypeOK, CpuRecords

(* statclock leaves the panel alone.                                       *)
LEMMA StatclockSteps ==
  ASSUME TypeOK, ClockInv, NEW c \in Cpu, Statclock(c)
  PROVE  TypeOK' /\ ClockInv'
<1>0. /\ cpu[c] \in CpuRecords /\ InStep(cpu[c]) /\ psdiv \in {1, psratio}
      /\ psratio \in Nat /\ psratio >= 1
  BY Ratio DEF TypeOK, CpuRecords, ClockInv, RateInv
<1>1. ASSUME NEW r \in CpuRecords, Handler(c, r), InStep(r),
             UNCHANGED <<panel, reader>>,
             r.at # "panel", cpu[c].at # "panel", r.word = cpu[c].word
      PROVE  TypeOK' /\ ClockInv'
  <2>1. CountInv' /\ RateInv' /\ cpu' \in [Cpu -> CpuRecords]
    BY <1>1, HandlerSteps DEF ClockInv
  <2>2. TypeOK'
    BY <1>1, <2>1 DEF Handler, TypeOK, CpuRecords
  <2>3. \A d \in Cpu : /\ cpu'[d].word = cpu[d].word
                       /\ cpu'[d].at = "panel" <=> cpu[d].at = "panel"
    BY <1>1 DEF Handler, TypeOK
  <2>4. PanelInv'
    BY <1>1, <2>3, ClockAssumption DEF ClockInv, PanelInv, FrameOrdered
  <2> QED BY <2>1, <2>2, <2>4 DEF ClockInv
<1>2. CASE statclock(c)
  <2>1. CASE cpu[c].psdiv # psdiv
    <3> DEFINE r == [cpu[c] EXCEPT !.at = "div", !.changes = 0]
    <3>0. /\ r \in CpuRecords /\ r.at = "div" /\ r.word = cpu[c].word
      <4>1. 0 \in 0 .. 2
        OBVIOUS
      <4> QED BY <1>0, <4>1, Zenon DEF CpuRecords
    <3>1. /\ r \in CpuRecords /\ InStep(r) /\ r.at # "panel"
          /\ r.word = cpu[c].word
      <4> HIDE DEF r
      <4> QED BY <3>0 DEF InStep
    <3>2. Handler(c, r) /\ UNCHANGED <<panel, reader>> /\ cpu[c].at # "panel"
      BY <1>2, <2>1 DEF statclock
    <3> QED BY <1>1, <3>1, <3>2
  <2>2. CASE cpu[c].psdiv = psdiv
    <3> DEFINE r == [cpu[c] EXCEPT !.at = "count"]
    <3>2. /\ Handler(c, r) /\ UNCHANGED <<panel, reader>>
          /\ cpu[c].at \in {"out", "stat"}
      BY <1>2, <2>2 DEF statclock
    <3>1. /\ r \in CpuRecords /\ InStep(r) /\ r.at # "panel"
          /\ r.word = cpu[c].word
      BY <1>0, <3>2 DEF CpuRecords, InStep
    <3> QED BY <1>1, <3>1, <3>2
  <2> QED BY <2>1, <2>2
<1>3. CASE statclock_div(c)
  <2> DEFINE r == [cpu[c] EXCEPT !.at = "cnt", !.psdiv = psdiv]
  <2>0. /\ r \in CpuRecords /\ r.at = "cnt" /\ r.word = cpu[c].word
        /\ r.psdiv = psdiv
    BY <1>0 DEF CpuRecords
  <2>1. /\ r \in CpuRecords /\ InStep(r) /\ r.at # "panel"
        /\ r.word = cpu[c].word
    <3> HIDE DEF r
    <3> QED BY <2>0 DEF InStep
  <2>2. Handler(c, r) /\ UNCHANGED <<panel, reader>> /\ cpu[c].at # "panel"
    BY <1>3 DEF statclock_div
  <2> QED BY <1>1, <2>1, <2>2
<1>4. CASE statclock_cnt(c)
  <2> DEFINE r == [cpu[c] EXCEPT !.at = "rate", !.pscnt = psdiv]
  <2>2. Handler(c, r) /\ UNCHANGED <<panel, reader>> /\ cpu[c].at = "cnt"
    BY <1>4 DEF statclock_cnt
  <2>0. /\ r \in CpuRecords /\ r.at = "rate" /\ r.word = cpu[c].word
        /\ r.psdiv = cpu[c].psdiv /\ r.changes = cpu[c].changes
    <3>1. psdiv \in 1 .. psratio
      BY <1>0
    <3> QED BY <1>0, <3>1 DEF CpuRecords
  <2>1. /\ r \in CpuRecords /\ InStep(r) /\ r.at # "panel"
        /\ r.word = cpu[c].word
    <3> HIDE DEF r
    <3> QED BY <1>0, <2>0, <2>2 DEF InStep
  <2> QED BY <1>1, <2>1, <2>2
<1>5. CASE statclock_rate(c)
  <2> DEFINE r == [cpu[c] EXCEPT !.at = "count", !.rate = RateFor(psdiv)]
  <2>2. Handler(c, r) /\ UNCHANGED <<panel, reader>> /\ cpu[c].at = "rate"
    BY <1>5 DEF statclock_rate, RateFor
  <2>1. /\ r \in CpuRecords /\ InStep(r) /\ r.at # "panel"
        /\ r.word = cpu[c].word
    BY <1>0, <2>2 DEF CpuRecords, InStep, RateFor
  <2> QED BY <1>1, <2>1, <2>2
<1>6. CASE statclock_count(c)
  <2> DEFINE n == cpu[c].pscnt - 1
             r == [cpu[c] EXCEPT !.at = "out",
                                 !.pscnt = IF n > 0 THEN n ELSE psdiv]
  <2>2. Handler(c, r) /\ UNCHANGED <<panel, reader>> /\ cpu[c].at = "count"
    BY <1>6 DEF statclock_count
  <2>1. /\ r \in CpuRecords /\ InStep(r) /\ r.at # "panel"
        /\ r.word = cpu[c].word
    <3>1. (IF n > 0 THEN n ELSE psdiv) \in 1 .. psratio
      BY <1>0 DEF CpuRecords
    <3> QED BY <1>0, <2>2, <3>1 DEF CpuRecords, InStep
  <2> QED BY <1>1, <2>1, <2>2
<1> QED BY <1>2, <1>3, <1>4, <1>5, <1>6 DEF Statclock

(* hardclock on the primary processor.                                     *)
LEMMA HardclockSteps ==
  ASSUME TypeOK, ClockInv, NEW c \in Cpu, hardclock(c) \/ hardclock_panel(c)
  PROVE  TypeOK' /\ ClockInv'
<1>0. /\ cpu[c] \in CpuRecords /\ InStep(cpu[c]) /\ c = Primary
      /\ panel \in [Words -> Nat] /\ reader.copied \in [Words -> Nat]
  BY DEF TypeOK, CpuRecords, ClockInv, RateInv, PanelInv, hardclock,
         hardclock_panel
<1>1. ASSUME NEW r \in CpuRecords, Handler(c, r), InStep(r),
             panel' \in [Words -> Nat], UNCHANGED reader,
             r.at # "panel" => r.word = 1,
             \A w \in Words : panel'[w] = IF 1 < r.word /\ r.word =< w
                                         THEN panel'[1] - 1 ELSE panel'[1],
             \A w \in Words : panel[w] =< panel'[w]
      PROVE  TypeOK' /\ ClockInv'
  <2>1. CountInv' /\ RateInv' /\ cpu' \in [Cpu -> CpuRecords]
    BY <1>1, HandlerSteps DEF ClockInv
  <2>2. TypeOK'
    BY <1>1, <2>1 DEF Handler, TypeOK, CpuRecords
  <2>3. cpu'[Primary] = r /\ \A d \in Cpu : d # c => cpu'[d] = cpu[d]
    BY <1>0, <1>1 DEF Handler, TypeOK
  <2>4. \A d \in Cpu : cpu'[d].at = "panel" => d = Primary
    BY <1>0, <2>3 DEF ClockInv, PanelInv
  <2>5. \A w \in Words : reader'.copied[w] =< panel'[w]
    <3> SUFFICES ASSUME NEW w \in Words PROVE reader.copied[w] =< panel'[w]
      BY <1>1
    <3>1. reader.copied[w] =< panel[w] /\ panel[w] =< panel'[w]
      BY <1>1 DEF ClockInv, PanelInv
    <3> QED BY <1>0, <1>1, <3>1
  <2>6. FrameOrdered'
    BY <1>1 DEF FrameOrdered, ClockInv, PanelInv
  <2> QED BY <1>1, <2>1, <2>2, <2>3, <2>4, <2>5, <2>6
          DEF ClockInv, PanelInv
<1>2. CASE hardclock(c)
  <2> DEFINE r == [cpu[c] EXCEPT !.at = "panel", !.word = 1]
  <2>1. Handler(c, r) /\ UNCHANGED <<panel, reader>> /\ cpu[c].at = "out"
    BY <1>2 DEF hardclock
  <2>2. r \in CpuRecords /\ r.word = 1 /\ r.at = "panel" /\ InStep(r)
    BY <1>0, <2>1, WordFacts DEF CpuRecords, InStep
  <2>3. \A w \in Words : panel[w] = panel[1]
    BY <1>0, <2>1 DEF ClockInv, PanelInv
  <2> HIDE DEF r
  <2> QED BY <1>0, <1>1, <2>1, <2>2, <2>3
<1>3. CASE hardclock_panel(c)
  <2> DEFINE k == cpu[c].word
             r == IF k = NWords
                  THEN [cpu[c] EXCEPT !.word = 1, !.at =
                          IF stathz = 0 THEN "stat" ELSE "out"]
                  ELSE [cpu[c] EXCEPT !.word = k + 1]
  <2>1. /\ Handler(c, r) /\ UNCHANGED reader /\ cpu[c].at = "panel"
        /\ panel' = [panel EXCEPT ![k] = panel[k] + 1]
    BY <1>3 DEF hardclock_panel
  <2>2. k \in Words /\ NWords \in Words /\ 1 \in Words /\ k \in 1 .. NWords
    BY <1>0, WordFacts DEF CpuRecords, Words
  <2>3. r \in CpuRecords /\ InStep(r)
    <3>1. k # NWords => k + 1 \in Words
      BY <2>2, ClockAssumption DEF Words
    <3>2. CASE k = NWords
      BY <1>0, <2>1, <2>2, <3>2 DEF CpuRecords, InStep
    <3>3. CASE k # NWords
      BY <1>0, <2>1, <3>1, <3>3 DEF CpuRecords, InStep
    <3> QED BY <3>2, <3>3
  <2>4. /\ r.at # "panel" => r.word = 1
        /\ r.word = IF k = NWords THEN 1 ELSE k + 1
    BY <1>0, <2>1 DEF CpuRecords
  <2>5. /\ panel' \in [Words -> Nat]
        /\ \A w \in Words : panel'[w] = IF w = k THEN panel[w] + 1
                                        ELSE panel[w]
    BY <1>0, <2>1, <2>2
  <2>6. \A w \in Words : panel[w] = IF 1 < k /\ k =< w
                                   THEN panel[1] - 1 ELSE panel[1]
    BY <1>0 DEF ClockInv, PanelInv
  <2>7. ASSUME NEW w \in Words
        PROVE  /\ panel[w] =< panel'[w]
               /\ panel'[w] = IF 1 < r.word /\ r.word =< w
                              THEN panel'[1] - 1 ELSE panel'[1]
    <3> HIDE DEF k, r
    <3>1. w \in 1 .. NWords /\ NWords \in Nat
      BY ClockAssumption DEF Words
    <3>2. panel[w] \in Nat /\ panel[1] \in Nat
      BY <1>0, <2>2
    <3>3. /\ panel'[w] = IF w = k THEN panel[w] + 1 ELSE panel[w]
          /\ panel'[1] = IF 1 = k THEN panel[1] + 1 ELSE panel[1]
      BY <2>2, <2>5
    <3>4. panel[w] = IF 1 < k /\ k =< w THEN panel[1] - 1 ELSE panel[1]
      BY <2>6
    <3>5. CASE k = NWords
      BY <2>2, <2>4, <3>1, <3>2, <3>3, <3>4, <3>5
    <3>6. CASE k # NWords
      BY <2>2, <2>4, <3>1, <3>2, <3>3, <3>4, <3>6
    <3> QED BY <3>5, <3>6
  <2> HIDE DEF r, k
  <2> QED BY <1>1, <2>1, <2>3, <2>4, <2>5, <2>7
<1> QED BY <1>2, <1>3

(* The client.                                                             *)
LEMMA ReaderSteps ==
  ASSUME TypeOK, ClockInv,
         open_kvm_and_find_panel \/ create_udp_socket \/ send_frames
  PROVE  TypeOK' /\ ClockInv'
<1>1. UNCHANGED Kernel
  BY DEF open_kvm_and_find_panel, create_udp_socket, send_frames, kvm_read,
         send
<1>2. CountInv' /\ RateInv'
  BY <1>1 DEF Kernel, ClockInv, CountInv, RateInv, InStep, Changing, Counted
<1> DEFINE Copying ==
             /\ reader' \in [at : {"start", "socket", "read", "send", "gone"},
                             word : Words, copied : [Words -> Nat]]
             /\ \A w \in Words : reader'.copied[w] =< panel[w]
             /\ FrameOrdered'
<1>3. SUFFICES Copying
  BY <1>1, <1>2 DEF Kernel, TypeOK, ClockInv, PanelInv
<1>4. ASSUME NEW place \in {"socket", "read", "gone"},
             reader' = NoReader(place)
      PROVE  Copying
  BY <1>4, WordFacts DEF NoReader, TypeOK, FrameOrdered
<1>5. CASE open_kvm_and_find_panel \/ create_udp_socket
  BY <1>4, <1>5 DEF open_kvm_and_find_panel, create_udp_socket
<1>6. CASE send
  <2>1. CASE reader' = [reader EXCEPT !.at = "read"]
    BY <2>1 DEF TypeOK, ClockInv, PanelInv, FrameOrdered
  <2> QED BY <1>4, <1>6, <2>1 DEF send
<1>7. CASE kvm_read
  <2> DEFINE j == reader.word
  <2>1. /\ j \in Words /\ reader.copied \in [Words -> Nat]
        /\ panel \in [Words -> Nat]
        /\ j \in 1 .. NWords /\ NWords \in Nat
    BY ClockAssumption DEF TypeOK, Words
  <2>2. /\ reader'.copied = [reader.copied EXCEPT ![j] = panel[j]]
        /\ reader'.word = (j % NWords) + 1
    BY <1>7 DEF kvm_read
  <2>3. (j % NWords) + 1 = IF j = NWords THEN 1 ELSE j + 1
    BY <2>1
  <2>4. (j % NWords) + 1 \in Words
    BY <2>1, <2>3 DEF Words
  <2>5. reader' \in [at : {"start", "socket", "read", "send", "gone"},
                    word : Words, copied : [Words -> Nat]]
    BY <1>7, <2>1, <2>4 DEF kvm_read
  <2>6. \A w \in Words :
          reader'.copied[w] = IF w = j THEN panel[j] ELSE reader.copied[w]
    BY <2>1, <2>2
  <2>7. \A w \in Words : reader.copied[w] =< panel[w]
    BY DEF ClockInv, PanelInv
  <2>8. \A v, w \in Words : v < w => panel[w] >= panel[v] - 1
    <3> SUFFICES ASSUME NEW v \in Words, NEW w \in Words, v < w
                 PROVE  panel[w] >= panel[v] - 1
      OBVIOUS
    <3>1. panel[v] \in Nat /\ panel[w] \in Nat /\ panel[1] \in Nat
      BY <2>1, WordFacts
    <3>2. \A u \in Words : panel[u] = panel[1] \/ panel[u] = panel[1] - 1
      BY DEF ClockInv, PanelInv
    <3>3. (panel[v] = panel[1] \/ panel[v] = panel[1] - 1)
          /\ (panel[w] = panel[1] \/ panel[w] = panel[1] - 1)
      BY <3>2
    <3> QED BY <3>1, <3>3
  <2>9. FrameOrdered'
    <3> SUFFICES ASSUME NEW v \in Words, NEW w \in Words, v < w,
                        w < reader'.word \/ reader'.word = 1
                 PROVE  reader'.copied[w] >= reader'.copied[v] - 1
      BY DEF FrameOrdered
    <3>1. v \in 1 .. NWords /\ w \in 1 .. NWords
      BY DEF Words
    <3>2. w < j \/ w = j
      BY <2>1, <2>2, <2>3, <3>1
    <3>3. reader'.copied[v] = reader.copied[v]
      BY <2>1, <2>6, <3>1, <3>2
    <3>4. CASE w = j
      <4>1. panel[w] >= panel[v] - 1 /\ reader.copied[v] =< panel[v]
        BY <2>7, <2>8
      <4> QED BY <2>1, <2>6, <3>3, <3>4, <4>1
    <3>5. CASE w < j
      <4>1. reader.copied[w] >= reader.copied[v] - 1
        BY <3>5 DEF ClockInv, PanelInv, FrameOrdered
      <4> QED BY <2>1, <2>6, <3>1, <3>3, <3>5, <4>1
    <3> QED BY <3>2, <3>4, <3>5
  <2>10. \A w \in Words : reader'.copied[w] =< panel[w]
    BY <2>1, <2>6, <2>7
  <2> QED BY <2>5, <2>9, <2>10
<1> QED BY <1>5, <1>6, <1>7 DEF send_frames

-----------------------------------------------------------------------------
(* Every reachable state is well typed and satisfies the invariant.        *)
THEOREM ClockCorrect == Spec => [](TypeOK /\ ClockInv)
<1>1. TypeOK /\ ClockInv /\ [Next]_vars => TypeOK' /\ ClockInv'
  <2> SUFFICES ASSUME TypeOK, ClockInv, [Next]_vars PROVE TypeOK' /\ ClockInv'
    OBVIOUS
  <2>1. CASE UNCHANGED vars
    BY <2>1 DEF vars, TypeOK, ClockInv, CountInv, RateInv, InStep, PanelInv,
                FrameOrdered, Changing, Counted
  <2>2. ASSUME NEW p \in Proc, changeprofclock(p) \/ loadprofprocs(p)
                               \/ storeprofprocs(p)
        PROVE  TypeOK' /\ ClockInv'
    BY <2>2, ChangeTypes, ChangeCounts, ChangeSeen DEF ClockInv
  <2>3. ASSUME NEW c \in Cpu,
               hardclock(c) \/ hardclock_panel(c) \/ Statclock(c)
        PROVE  TypeOK' /\ ClockInv'
    BY <2>3, HardclockSteps, StatclockSteps
  <2> QED BY <2>1, <2>2, <2>3, ReaderSteps DEF Next
<1> QED BY <1>1, ClockInit, PTL DEF Spec

(* Unless two changes have overlapped, profprocs and the divider are what  *)
(* the profiled processes say.                                             *)
THEOREM ProfprocsCounts == Spec => []ProfilersCounted
<1>1. TypeOK /\ ClockInv => ProfilersCounted
  <2> SUFFICES ASSUME TypeOK, ClockInv, Changing = {}, ~overlap
               PROVE  /\ profprocs = Cardinality(Profiled)
                      /\ psdiv = DividerFor(profprocs)
    BY DEF ProfilersCounted, Profiled, DividerFor
  <2>1. Counted = Profiled
    BY DEF Counted, Profiled, TypeOK
  <2> QED BY <2>1 DEF ClockInv, CountInv
<1> QED BY <1>1, ClockCorrect, PTL

(* A processor in step with the divider has the rate that goes with it.    *)
THEOREM RatesAgree == Spec => []RateAgrees
<1>1. TypeOK /\ ClockInv => RateAgrees
  BY DEF ClockInv, RateInv, InStep, RateFor, RateAgrees
<1> QED BY <1>1, ClockCorrect, PTL

(* A frame is torn by one tick at most.                                    *)
THEOREM FramesTornByOneTick == Spec => []FrameOrdered
<1>1. ClockInv => FrameOrdered
  BY DEF ClockInv, PanelInv
<1> QED BY <1>1, ClockCorrect, PTL
=============================================================================

-------------------------- MODULE LegacyRun_proofs --------------------------
(***************************************************************************)
(* Proofs about LegacyRun for every nesting depth, repeat count, number of *)
(* files and set of codes.                                                 *)
(*                                                                         *)
(* EngineInv is the first inductive invariant: the types, the nesting of   *)
(* the call stack, and what a batch and a query in flight satisfy.  An     *)
(* engine step either leaves the shape of the stack alone (Completes,      *)
(* Send, NextFails), pushes a frame (IncludeFile, StartRun) or pops one    *)
(* (RunReturns); a lemma for each kind of step carries EngineInv over it.  *)
(* Outcome, about errors on their way through several runs, builds on it.  *)
(***************************************************************************)
EXTENDS LegacyRun, TLAPS

(* Batches Next can leave: a separator or an open quote implies text.      *)
GoodBatches ==
  {b \in Batches : /\ ~b.lineOne => b.text # "nil"
                   /\ b.open => b.text # "nil"}

EngineOK ==
  /\ opt \in Options
  /\ frames \in Seq(Frames) /\ Depth <= MaxDepth
  /\ reader \in 0..MaxDepth /\ echo \in BOOLEAN
  /\ batch \in GoodBatches
  /\ exitOnError \in BOOLEAN /\ ignoreError \in BOOLEAN
  /\ exitcode \in Codes
  /\ pc \in {"idle", "first", "next", "query", "return"}
  /\ call \in Calls
  /\ ret \in {"none", "err", "ctrlc"}
  /\ seen \in Seen

EngineInv == EngineOK /\ NestingRestores /\ ReadOnlyHolds

HostOK == mode \in Modes /\ host \in Hosts /\ file \in 0..MaxFiles

IInv == EngineInv /\ HostOK

(* Two call stacks that only differ in once and lastError.                 *)
SameShape(f, g) ==
  /\ Len(g) = Len(f)
  /\ \A k \in 1..Len(f) : /\ g[k].kind = f[k].kind
                          /\ g[k].curLine = f[k].curLine
                          /\ g[k].wasEcho = f[k].wasEcho
-----------------------------------------------------------------------------
(* The call stack.                                                         *)

(* Replacing the innermost frame by one of the same shape.                 *)
LEMMA SetTop ==
  ASSUME NEW fs \in Seq(Frames), Len(fs) > 0, NEW fr \in Frames,
         fr.kind = fs[Len(fs)].kind, fr.curLine = fs[Len(fs)].curLine,
         fr.wasEcho = fs[Len(fs)].wasEcho,
         NEW g, g = [fs EXCEPT ![Len(fs)] = fr]
  PROVE  g \in Seq(Frames) /\ SameShape(fs, g)
<1>1. g \in Seq(Frames) /\ Len(g) = Len(fs)
  OBVIOUS
<1>2. \A k \in 1..Len(fs) : g[k] = IF k = Len(fs) THEN fr ELSE fs[k]
  OBVIOUS
<1>3. QED
  BY <1>1, <1>2 DEF SameShape

(* Overwriting its lastError keeps the types and the shape of the stack.   *)
LEMMA SetLastError ==
  ASSUME NEW fs \in Seq(Frames), Len(fs) > 0, NEW v \in {"none", "err"},
         NEW g, g = [fs EXCEPT ![Len(fs)].lastError = v]
  PROVE  g \in Seq(Frames) /\ SameShape(fs, g)
<1> DEFINE fr == [fs[Len(fs)] EXCEPT !.lastError = v]
<1>1. fs[Len(fs)] \in Frames
  OBVIOUS
<1>2. /\ fr \in Frames
      /\ fr.kind = fs[Len(fs)].kind
      /\ fr.curLine = fs[Len(fs)].curLine
      /\ fr.wasEcho = fs[Len(fs)].wasEcho
  BY <1>1 DEF Frames
<1>3. g = [fs EXCEPT ![Len(fs)] = fr]
  OBVIOUS
<1> HIDE DEF fr
<1>4. QED
  BY <1>2, <1>3, SetTop

(* So does setting once, as Run does at the end of the input.              *)
LEMMA SetOnce ==
  ASSUME NEW fs \in Seq(Frames), Len(fs) > 0,
         NEW g, g = [fs EXCEPT ![Len(fs)].once = TRUE]
  PROVE  g \in Seq(Frames) /\ SameShape(fs, g)
<1> DEFINE fr == [fs[Len(fs)] EXCEPT !.once = TRUE]
<1>1. fs[Len(fs)] \in Frames
  OBVIOUS
<1>2. /\ fr \in Frames
      /\ fr.kind = fs[Len(fs)].kind
      /\ fr.curLine = fs[Len(fs)].curLine
      /\ fr.wasEcho = fs[Len(fs)].wasEcho
  BY <1>1 DEF Frames
<1>3. g = [fs EXCEPT ![Len(fs)] = fr]
  BY Zenon
<1> HIDE DEF fr
<1>4. QED
  BY <1>2, <1>3, SetTop

(* The shape decides what is restored and which reader is current.         *)
LEMMA ShapeDecides ==
  ASSUME NEW f \in Seq(Frames), NEW g \in Seq(Frames), SameShape(f, g),
         WellNested(f)
  PROVE  /\ WellNested(g)
         /\ ReaderOf(g, Len(g)) = ReaderOf(f, Len(f))
         /\ EditBelow(g, Len(g)) = EditBelow(f, Len(f))
<1>1. \A k \in 0..Len(f) : ReaderOf(g, k) = ReaderOf(f, k)
  BY DEF SameShape, ReaderOf
<1>2. \A k \in 0..Len(f) : EditBelow(g, k) = EditBelow(f, k)
  BY DEF SameShape, EditBelow
<1>3. ASSUME NEW k \in 1..Len(g)
      PROVE  /\ g[k].kind = "run" => k = 1
             /\ g[k].kind # "run" => /\ g[k].curLine = ReaderOf(g, k - 1)
                                     /\ g[k].wasEcho = EditBelow(g, k - 1)
  <2>1. k \in 1..Len(f) /\ k - 1 \in 0..Len(f)
    BY DEF SameShape
  <2>2. QED
    BY <2>1, <1>1, <1>2 DEF SameShape, WellNested
<1>4. WellNested(g)
  BY <1>3 DEF WellNested
<1>5. QED
  BY <1>1, <1>2, <1>4 DEF SameShape

LEMMA NothingBelow ==
  ASSUME NEW f PROVE ReaderOf(f, 0) = 0 /\ EditBelow(f, 0) = FALSE
<1>1. 1..0 = {}
  OBVIOUS
<1>2. ~EditBelow(f, 0)
  BY <1>1 DEF EditBelow
<1>3. EditBelow(f, 0) \in BOOLEAN
  BY DEF EditBelow
<1>4. QED
  BY <1>2, <1>3 DEF ReaderOf

LEMMA OneRun ==
  ASSUME NEW f, f[1].kind = "run"
  PROVE  ReaderOf(f, 1) = 0 /\ EditBelow(f, 1) = FALSE
<1>1. \A j \in 1..1 : j = 1
  OBVIOUS
<1>2. ~EditBelow(f, 1)
  BY <1>1 DEF EditBelow
<1>3. EditBelow(f, 1) \in BOOLEAN
  BY DEF EditBelow
<1>4. QED
  BY <1>2, <1>3 DEF ReaderOf

(* IncludeFile pushes a frame that remembers its caller's reader and echo. *)
LEMMA PushNested ==
  ASSUME NEW f \in Seq(Frames), WellNested(f), NEW fr \in Frames,
         fr.kind # "run", fr.curLine = ReaderOf(f, Len(f)),
         fr.wasEcho = EditBelow(f, Len(f)), NEW g, g = Append(f, fr)
  PROVE  /\ g \in Seq(Frames) /\ Len(g) = Len(f) + 1
         /\ WellNested(g)
         /\ ReaderOf(g, Len(g)) = Len(g)
         /\ EditBelow(g, Len(g)) = (EditBelow(f, Len(f)) \/ fr.kind = "edit")
<1>1. g \in Seq(Frames) /\ Len(g) = Len(f) + 1 /\ g[Len(f) + 1] = fr
  OBVIOUS
<1>2. \A k \in 1..Len(f) : g[k] = f[k]
  OBVIOUS
<1>3. \A k \in 0..Len(f) : ReaderOf(g, k) = ReaderOf(f, k)
  BY <1>2 DEF ReaderOf
<1>4. \A k \in 0..Len(f) : EditBelow(g, k) = EditBelow(f, k)
  BY <1>2 DEF EditBelow
<1>5. ASSUME NEW k \in 1..Len(g)
      PROVE  /\ g[k].kind = "run" => k = 1
             /\ g[k].kind # "run" => /\ g[k].curLine = ReaderOf(g, k - 1)
                                     /\ g[k].wasEcho = EditBelow(g, k - 1)
  <2>1. CASE k \in 1..Len(f)
    BY <2>1, <1>2, <1>3, <1>4 DEF WellNested
  <2>2. CASE k = Len(f) + 1
    BY <2>2, <1>1, <1>3, <1>4
  <2>3. QED
    BY <1>1, <2>1, <2>2
<1>6. WellNested(g)
  BY <1>5 DEF WellNested
<1>7. ReaderOf(g, Len(g)) = Len(g)
  BY <1>1 DEF ReaderOf
<1>8. EditBelow(g, Len(g)) = (EditBelow(f, Len(f)) \/ fr.kind = "edit")
  <2>1. \A j \in 1..Len(g) : j \in 1..Len(f) \/ j = Len(f) + 1
    BY <1>1
  <2>2. Len(f) + 1 \in 1..Len(g)
    BY <1>1
  <2>3. ASSUME EditBelow(g, Len(g))
        PROVE  EditBelow(f, Len(f)) \/ fr.kind = "edit"
    BY <2>1, <2>3, <1>1, <1>2 DEF EditBelow
  <2>4. ASSUME EditBelow(f, Len(f)) \/ fr.kind = "edit"
        PROVE  EditBelow(g, Len(g))
    <3>1. CASE fr.kind = "edit"
      BY <3>1, <2>2, <1>1 DEF EditBelow
    <3>2. CASE EditBelow(f, Len(f))
      BY <3>2, <1>1, <1>2 DEF EditBelow
    <3>3. QED
      BY <2>4, <3>1, <3>2
  <2>5. QED
    BY <2>3, <2>4 DEF EditBelow
<1>9. QED
  BY <1>1, <1>6, <1>7, <1>8

(* Returning from IncludeFile restores what the frame remembers.           *)
LEMMA PopNested ==
  ASSUME NEW f \in Seq(Frames), WellNested(f), Len(f) > 1,
         NEW g, g = SubSeq(f, 1, Len(f) - 1)
  PROVE  /\ g \in Seq(Frames) /\ Len(g) = Len(f) - 1
         /\ WellNested(g)
         /\ f[Len(f)].kind # "run"
         /\ f[Len(f)].curLine = ReaderOf(g, Len(g))
         /\ f[Len(f)].wasEcho = EditBelow(g, Len(g))
<1>1. g \in Seq(Frames) /\ Len(g) = Len(f) - 1
  OBVIOUS
<1>2. \A k \in 1..Len(g) : g[k] = f[k]
  BY <1>1
<1>3. \A k \in 0..Len(g) : ReaderOf(g, k) = ReaderOf(f, k)
  BY <1>2 DEF ReaderOf
<1>4. \A k \in 0..Len(g) : EditBelow(g, k) = EditBelow(f, k)
  BY <1>2 DEF EditBelow
<1>5. ASSUME NEW k \in 1..Len(g)
      PROVE  /\ g[k].kind = "run" => k = 1
             /\ g[k].kind # "run" => /\ g[k].curLine = ReaderOf(g, k - 1)
                                     /\ g[k].wasEcho = EditBelow(g, k - 1)
  <2>1. k \in 1..Len(f) /\ k - 1 \in 0..Len(g)
    BY <1>1
  <2>2. QED
    BY <2>1, <1>2, <1>3, <1>4 DEF WellNested
<1>6. WellNested(g)
  BY <1>5 DEF WellNested
<1>7. Len(f) \in 1..Len(f) /\ Len(f) # 1 /\ Len(f) - 1 \in 0..Len(g)
  BY <1>1
<1>8. /\ f[Len(f)].kind # "run"
      /\ f[Len(f)].curLine = ReaderOf(f, Len(f) - 1)
      /\ f[Len(f)].wasEcho = EditBelow(f, Len(f) - 1)
  BY <1>7 DEF WellNested
<1>9. QED
  BY <1>1, <1>3, <1>4, <1>6, <1>7, <1>8
-----------------------------------------------------------------------------
(* The batch.                                                              *)

LEMMA ResetGood == ResetBatch \in GoodBatches
BY DEF ResetBatch, GoodBatches, Batches

LEMMA AppendGood ==
  ASSUME NEW b \in GoodBatches, NEW l \in TextLines(b)
  PROVE  AppendLine(b, l) \in GoodBatches
<1>1. b \in Batches
  BY DEF GoodBatches
<1>2. /\ l.blank \in BOOLEAN /\ l.write \in BOOLEAN
      /\ l.var \in BOOLEAN /\ l.open \in BOOLEAN
  BY DEF TextLines
<1> DEFINE t == IF b.text = "nil" /\ l.blank THEN "blank" ELSE "text"
           w == b.write \/ l.write
           o == l.open
           k == b.skew \/ (l.var /\ Misplaced(b))
           c == [b EXCEPT !.text = t, !.write = w]
           d == [c EXCEPT !.open = o, !.skew = k]
           e == [d EXCEPT !.lineOne = FALSE, !.raw = FALSE]
<1>3. AppendLine(b, l) = e
  BY Zenon DEF AppendLine
<1>4. t \in {"blank", "text"} /\ w \in BOOLEAN /\ k \in BOOLEAN /\ o \in BOOLEAN
  BY <1>2 DEF Misplaced
<1> HIDE DEF t, w, o, k
<1>5. c \in Batches /\ c.text = t
  BY <1>1, <1>4 DEF Batches
<1> HIDE DEF c
<1>6. d \in Batches /\ d.text = t
  BY <1>4, <1>5 DEF Batches
<1> HIDE DEF d
<1>7. e \in Batches /\ e.text = t
  BY <1>6 DEF Batches
<1> HIDE DEF e
<1>8. e \in GoodBatches
  BY <1>4, <1>7 DEF GoodBatches
<1>9. QED
  BY <1>3, <1>8

LEMMA IncludeGood ==
  ASSUME batch \in GoodBatches PROVE AfterInclude(batch) \in GoodBatches
BY DEF AfterInclude, StateIsEmpty, IsEmpty, GoodBatches, Batches
-----------------------------------------------------------------------------
(* Steps of the engine.                                                    *)

(* The step does not clear a nonzero exit code.                            *)
KeepsCode == exitcode' = 0 => exitcode = 0

(* fs is the call stack, but for once or lastError of its top.             *)
StackLike(fs) ==
  /\ pc # "idle"
  /\ fs \in Seq(Frames) /\ SameShape(frames, fs) /\ Len(fs) > 0

LEMMA StackLikeFrames ==
  ASSUME EngineInv, pc # "idle" PROVE StackLike(frames)
<1>1. Len(frames) > 0
  BY DEF EngineInv, EngineOK, NestingRestores
<1>2. QED
  BY <1>1 DEF StackLike, EngineInv, EngineOK, SameShape

(* A step that keeps the shape, the reader and the echo keeps the nesting. *)
LEMMA KeepsNesting ==
  ASSUME EngineInv, NEW fs, StackLike(fs), frames' \in Seq(Frames),
         SameShape(fs, frames'), UNCHANGED nesting, pc' # "idle"
  PROVE  NestingRestores' /\ Depth' <= MaxDepth
<1>1. SameShape(frames, frames') /\ Len(frames') = Len(fs) /\ Len(fs) = Len(frames)
  BY DEF StackLike, SameShape
<1>2. /\ WellNested(frames')
      /\ ReaderOf(frames', Len(frames')) = ReaderOf(frames, Len(frames))
      /\ EditBelow(frames', Len(frames')) = EditBelow(frames, Len(frames))
  BY <1>1, ShapeDecides DEF EngineInv, EngineOK, NestingRestores
<1>3. frames' # <<>>
  BY <1>1 DEF StackLike
<1>4. QED
  BY <1>1, <1>2, <1>3 DEF EngineInv, EngineOK, NestingRestores, nesting, Depth

LEMMA SettleFacts ==
  ASSUME NEW fs \in Seq(Frames), Len(fs) > 0, NEW e, NEW code \in Codes,
         Settle(fs, e, code)
  PROVE  /\ frames' \in Seq(Frames) /\ SameShape(fs, frames')
         /\ exitcode' \in Codes
         /\ pc' \in {"next", "return"} /\ ret' \in {"none", "err"}
         /\ exitcode' = 0 => code = 0
<1> DEFINE leave == Leaves(fs[Len(fs)], e)
           v == IF e = "err" /\ ~leave THEN "err" ELSE "none"
<1>1. v \in {"none", "err"} /\ frames' = [fs EXCEPT ![Len(fs)].lastError = v]
  BY DEF Settle
<1> HIDE DEF v
<1>2. frames' \in Seq(Frames) /\ SameShape(fs, frames')
  BY <1>1, SetLastError
<1>3. 1 \in Codes
  BY DEF Codes
<1>4. /\ exitcode' \in {code, 1}
      /\ pc' \in {"next", "return"} /\ ret' \in {"none", "err"}
  BY DEF Settle
<1>5. QED
  BY <1>2, <1>3, <1>4

(* The history keeps its type.                                             *)
LEMMA EndedSmall ==
  ASSUME NEW fs, Len(fs) \in 1..MaxDepth, NEW e
  PROVE  EndedBy(fs, e) \in SUBSET (1..MaxDepth)
<1>1. \A k \in 1..Len(fs) : k \in 1..MaxDepth
  BY BoundsAssumption
<1>2. {k \in 1..Len(fs) : \A j \in (k + 1)..Len(fs) :
          fs[j].kind # "edit" /\ ~fs[j].once} \in SUBSET (1..MaxDepth)
  BY <1>1
<1>3. {Len(fs)} \in SUBSET (1..MaxDepth) /\ {} \in SUBSET (1..MaxDepth)
  OBVIOUS
<1>4. QED
  BY <1>2, <1>3 DEF EndedBy

LEMMA SawTyped ==
  ASSUME EngineOK, NEW fs, Len(fs) \in 1..MaxDepth, NEW e, SawError(fs, e)
  PROVE  seen' \in Seen
<1> DEFINE p == seen.err \/ e = "err"
           q == EndedBy(fs, e) \cup (seen.ends \cap (1..Len(fs)))
<1>1. seen' = [err |-> p, ends |-> q]
  BY Zenon DEF SawError
<1>2. p \in BOOLEAN /\ q \in SUBSET (1..MaxDepth)
  BY EndedSmall DEF EngineOK, Seen
<1> HIDE DEF p, q
<1>3. QED
  BY <1>1, <1>2 DEF Seen

LEMMA ForcedTyped ==
  ASSUME NEW s \in SUBSET (1..MaxDepth), SawForced(s) PROVE seen' \in Seen
BY DEF SawForced, Seen

LEMMA LostTyped == ASSUME EngineOK, SawLost PROVE seen' \in Seen
BY DEF SawLost, EngineOK, Seen

(* How deep the stack may be.                                              *)
LEMMA StackDepth ==
  ASSUME EngineOK, NEW fs, StackLike(fs) PROVE Len(fs) \in 1..MaxDepth
BY BoundsAssumption DEF StackLike, SameShape, EngineOK, Depth

(* Any command that ends with Settle.                                      *)
LEMMA SettleStep ==
  ASSUME EngineInv, NEW fs, StackLike(fs),
         NEW e, NEW code \in Codes,
         Settle(fs, e, code), UNCHANGED nesting, opt' \in Options,
         batch' \in GoodBatches, call' \in Calls,
         exitOnError' \in BOOLEAN, ignoreError' \in BOOLEAN,
         seen' \in Seen
  PROVE  EngineInv'
<1>1. /\ frames' \in Seq(Frames) /\ SameShape(fs, frames')
      /\ exitcode' \in Codes
      /\ pc' \in {"next", "return"} /\ ret' \in {"none", "err"}
  BY SettleFacts DEF StackLike
<1>2. NestingRestores' /\ Depth' <= MaxDepth
  BY <1>1, KeepsNesting
<1>3. reader' \in 0..MaxDepth /\ echo' \in BOOLEAN
  BY DEF nesting, EngineInv, EngineOK
<1>4. ReadOnlyHolds'
  BY <1>1 DEF ReadOnlyHolds
<1>5. EngineOK'
  BY <1>1, <1>2, <1>3 DEF EngineOK
<1>6. QED
  BY <1>2, <1>4, <1>5 DEF EngineInv

LEMMA CompletesStep ==
  ASSUME EngineInv, NEW fs, StackLike(fs), NEW b \in GoodBatches,
         NEW e, NEW code \in {exitcode, 1},
         Completes(fs, b, e, code)
  PROVE  EngineInv' /\ KeepsCode
<1>1. seen' \in Seen
  BY SawTyped, StackDepth DEF Completes, EngineInv
<1>2. /\ UNCHANGED nesting /\ UNCHANGED settings /\ UNCHANGED call
      /\ batch' = b /\ Settle(fs, e, code)
  BY DEF Completes
<1>3. /\ opt' \in Options /\ exitOnError' \in BOOLEAN
      /\ ignoreError' \in BOOLEAN /\ call' \in Calls
  BY <1>2 DEF settings, EngineInv, EngineOK
<1>4. code \in Codes /\ (code = 0 => exitcode = 0)
  BY DEF EngineInv, EngineOK, Codes
<1>5. EngineInv'
  BY <1>1, <1>2, <1>3, <1>4, SettleStep
<1>6. KeepsCode
  BY <1>2, <1>4, SettleFacts DEF KeepsCode, StackLike
<1>7. QED
  BY <1>5, <1>6

LEMMA SendStep ==
  ASSUME EngineInv, NEW fs, StackLike(fs), NEW b \in GoodBatches,
         NEW by \in {"go", "exit"}, NEW left \in 0..MaxGo,
         NEW write \in BOOLEAN, NEW skew \in BOOLEAN,
         ~Rejected(write), Send(fs, b, by, left, write, skew)
  PROVE  EngineInv' /\ KeepsCode
<1>1. frames' \in Seq(Frames) /\ SameShape(fs, frames')
  BY SetLastError DEF Send, StackLike
<1>2. /\ pc' = "query" /\ batch' = b
      /\ call' = [by |-> by, left |-> left, write |-> write, skew |-> skew]
      /\ UNCHANGED <<settings, nesting, exitcode, ret, seen>>
  BY DEF Send
<1>3. NestingRestores' /\ Depth' <= MaxDepth
  BY <1>1, <1>2, KeepsNesting
<1>4. EngineOK'
  BY <1>1, <1>2, <1>3 DEF EngineInv, EngineOK, settings, nesting, Calls
<1>5. ReadOnlyHolds'
  BY <1>2 DEF ReadOnlyHolds, Rejected, settings
<1>6. QED
  BY <1>2, <1>3, <1>4, <1>5 DEF EngineInv, KeepsCode

(* :r, ED and the host's files.                                            *)
LEMMA IncludeStep ==
  ASSUME EngineInv, NEW fs \in Seq(Frames), SameShape(frames, fs),
         NEW b \in GoodBatches, NEW kind \in {"file", "edit"},
         NEW all \in BOOLEAN, IncludeFile(fs, b, kind, all)
  PROVE  EngineInv' /\ KeepsCode
<1> DEFINE fr == [once |-> FALSE, processAll |-> all, lastError |-> "none",
                  kind |-> kind, curLine |-> reader, wasEcho |-> echo]
<1>1. /\ Len(fs) < MaxDepth /\ frames' = Append(fs, fr)
      /\ reader' = Len(fs) + 1
      /\ echo' = (echo \/ kind = "edit") /\ batch' = b /\ pc' = "next"
      /\ UNCHANGED <<settings, exitcode, call, ret, seen>>
  BY DEF IncludeFile
<1>2. /\ WellNested(fs)
      /\ reader = ReaderOf(fs, Len(fs)) /\ echo = EditBelow(fs, Len(fs))
  BY ShapeDecides DEF EngineInv, EngineOK, NestingRestores, Depth
<1>3. fr \in Frames
  BY DEF Frames, EngineInv, EngineOK
<1>4. /\ fr.kind = kind /\ fr.kind # "run"
      /\ fr.curLine = ReaderOf(fs, Len(fs))
      /\ fr.wasEcho = EditBelow(fs, Len(fs))
  BY <1>2
<1> HIDE DEF fr
<1>5. /\ frames' \in Seq(Frames) /\ Len(frames') = Len(fs) + 1
      /\ WellNested(frames')
      /\ ReaderOf(frames', Len(frames')) = Len(frames')
      /\ EditBelow(frames', Len(frames'))
           = (EditBelow(fs, Len(fs)) \/ fr.kind = "edit")
  BY <1>1, <1>2, <1>3, <1>4, PushNested
<1>6. NestingRestores'
  <2>1. frames' # <<>>
    BY <1>5
  <2>2. echo' = EditBelow(frames', Len(frames'))
    BY <1>1, <1>2, <1>4, <1>5
  <2>3. QED
    BY <1>1, <1>5, <2>1, <2>2 DEF NestingRestores, Depth
<1>7. EngineOK'
  <2>1. Depth' <= MaxDepth /\ reader' \in 0..MaxDepth
    BY <1>1, <1>5, BoundsAssumption DEF Depth
  <2>2. echo' \in BOOLEAN
    BY <1>1 DEF EngineInv, EngineOK
  <2>3. QED
    BY <1>1, <1>5, <2>1, <2>2 DEF EngineInv, EngineOK, settings
<1>8. ReadOnlyHolds'
  BY <1>1 DEF ReadOnlyHolds
<1>9. QED
  BY <1>1, <1>6, <1>7, <1>8 DEF EngineInv, KeepsCode
-----------------------------------------------------------------------------
(* The commands.                                                           *)

LEMMA GoStep ==
  ASSUME EngineInv, NEW fs, StackLike(fs), NEW b \in GoodBatches,
         NEW n \in 1..MaxGo, GoCommand(fs, b, n)
  PROVE  EngineInv' /\ KeepsCode
<1>1. CASE IsEmpty(b) /\ Completes(fs, b, "none", exitcode)
  BY <1>1, CompletesStep
<1>2. CASE Completes(fs, ResetBatch, "err", 1)
  BY <1>2, ResetGood, CompletesStep
<1>3. CASE Completes(fs, ResetBatch, "none", exitcode)
  BY <1>3, ResetGood, CompletesStep
<1>4. CASE ~Rejected(b.write) /\ Send(fs, b, "go", n, b.write, b.skew)
  <2>1. b.write \in BOOLEAN /\ b.skew \in BOOLEAN /\ n \in 0..MaxGo
    BY DEF GoodBatches, Batches
  <2>2. QED
    BY <1>4, <2>1, SendStep
<1>5. QED
  BY <1>1, <1>2, <1>3, <1>4 DEF GoCommand

LEMMA ExitStep ==
  ASSUME EngineInv, NEW fs, StackLike(fs), NEW b \in GoodBatches,
         ExitCommand(fs, b)
  PROVE  EngineInv' /\ KeepsCode
<1>1. b.write \in BOOLEAN /\ b.skew \in BOOLEAN
  BY DEF GoodBatches, Batches
<1>2. 1 \in 0..MaxGo
  BY BoundsAssumption
<1>3. CASE Completes(fs, b, "exit", exitcode)
  BY <1>3, CompletesStep
<1>4. CASE ExitParens(fs, b)
  <2>1. CASE ~Rejected(b.write) /\ Send(fs, b, "exit", 1, b.write, b.skew)
    BY <2>1, <1>1, <1>2, SendStep
  <2>2. QED
    BY <1>3, <1>4, <2>1 DEF ExitParens
<1>5. CASE \E l \in TextLines(ResetBatch) : ~l.blank /\ ExitQuery(fs, b, l)
  <2>1. PICK l \in TextLines(ResetBatch) : ExitQuery(fs, b, l)
    BY <1>5
  <2> DEFINE b2 == AppendLine(ResetBatch, l)
             w == b.write \/ l.write
  <2>2. b2 \in GoodBatches
    BY ResetGood, AppendGood
  <2>3. w \in BOOLEAN
    OBVIOUS
  <2>4. \/ Completes(fs, b2, "exit", exitcode)
        \/ ~Rejected(w) /\ Send(fs, b2, "exit", 1, w, b.skew)
    BY <2>1, Zenon DEF ExitQuery, RejectsExit
  <2> HIDE DEF b2, w
  <2>5. CASE Completes(fs, b2, "exit", exitcode)
    BY <2>2, <2>5, CompletesStep
  <2>6. CASE ~Rejected(w) /\ Send(fs, b2, "exit", 1, w, b.skew)
    BY <1>1, <1>2, <2>2, <2>3, <2>6, SendStep
  <2>7. QED
    BY <2>4, <2>5, <2>6
<1>6. CASE Completes(fs, ResetBatch, "err", exitcode)
  BY <1>6, ResetGood, CompletesStep
<1>7. QED
  BY <1>3, <1>4, <1>5, <1>6 DEF ExitCommand

LEMMA PlainStep ==
  ASSUME EngineInv, NEW fs, StackLike(fs), NEW b \in GoodBatches,
         PlainCommand(fs, b)
  PROVE  EngineInv' /\ KeepsCode
<1> DEFINE c == [b EXCEPT !.lineOne = TRUE]
<1>1. c \in GoodBatches
  BY DEF GoodBatches, Batches
<1> HIDE DEF c
<1>2. CASE \E e : Completes(fs, b, e, exitcode)
  BY <1>2, CompletesStep
<1>3. CASE Completes(fs, ResetBatch, "none", exitcode)
  BY <1>3, ResetGood, CompletesStep
<1>4. CASE Completes(fs, c, "none", exitcode)
  BY <1>1, <1>4, CompletesStep
<1>5. CASE Completes(fs, b, "exit", 1)
  BY <1>5, CompletesStep
<1>6. QED
  BY <1>2, <1>3, <1>4, <1>5 DEF PlainCommand, c

LEMMA OnErrorStep ==
  ASSUME EngineInv, NEW fs, StackLike(fs), NEW b \in GoodBatches,
         NEW arg \in {"exit", "ignore"}, OnErrorCommand(fs, b, arg)
  PROVE  EngineInv' /\ KeepsCode
<1>1. /\ exitOnError' \in BOOLEAN /\ ignoreError' \in BOOLEAN
      /\ batch' \in GoodBatches
      /\ UNCHANGED <<opt, nesting, call, seen>>
      /\ Settle(fs, "none", exitcode)
  BY DEF OnErrorCommand
<1>2. /\ opt' \in Options /\ call' \in Calls /\ exitcode \in Codes
      /\ seen' \in Seen
  BY <1>1 DEF EngineInv, EngineOK
<1>3. EngineInv'
  BY <1>1, <1>2, SettleStep
<1>4. QED
  BY <1>1, <1>2, <1>3, SettleFacts DEF KeepsCode, StackLike

LEMMA CommandStep ==
  ASSUME EngineInv, NEW b \in GoodBatches, pc # "idle", Command(frames, b)
  PROVE  EngineInv' /\ KeepsCode
<1>1. StackLike(frames)
  BY StackLikeFrames
<1>2. CASE \E n \in 1..MaxGo : GoCommand(frames, b, n)
  BY <1>1, <1>2, GoStep
<1>3. CASE ExitCommand(frames, b)
  BY <1>1, <1>3, ExitStep
<1>4. CASE PlainCommand(frames, b)
  BY <1>1, <1>4, PlainStep
<1>5. CASE \E arg \in {"exit", "ignore"} : OnErrorCommand(frames, b, arg)
  BY <1>1, <1>5, OnErrorStep
<1>6. CASE ReadFileCommand(frames, b)
  BY <1>1, <1>6, IncludeStep DEF ReadFileCommand, StackLike
<1>7. CASE EditCommand(frames, b)
  BY <1>1, <1>7, ResetGood, IncludeStep DEF EditCommand, StackLike
<1>8. QED
  BY <1>2, <1>3, <1>4, <1>5, <1>6, <1>7 DEF Command
-----------------------------------------------------------------------------
(* One iteration of the loop, and the return of a query.                   *)

LEMMA NextFailsStep ==
  ASSUME EngineInv, pc = "next", NEW b \in GoodBatches, NextFails(b)
  PROVE  EngineInv' /\ KeepsCode
<1>1. /\ batch' = b /\ exitcode' \in {exitcode, 1}
      /\ pc' \in {"return", "next"} /\ ret' \in {"err", ret}
      /\ SawError(frames, "err") /\ UNCHANGED <<settings, nesting, frames, call>>
      /\ exitcode' = 0 => exitcode = 0
  BY DEF NextFails
<1>2. StackLike(frames)
  BY StackLikeFrames
<1>3. NestingRestores' /\ Depth' <= MaxDepth
  BY <1>1, <1>2, KeepsNesting DEF StackLike
<1>4. seen' \in Seen
  BY <1>1, SawTyped, StackLikeFrames, StackDepth DEF EngineInv
<1>5. EngineOK'
  BY <1>1, <1>3, <1>4 DEF EngineInv, EngineOK, settings, nesting, Codes
<1>6. QED
  BY <1>1, <1>3, <1>5 DEF EngineInv, ReadOnlyHolds, KeepsCode

LEMMA ReadTextStep ==
  ASSUME EngineInv, ReadText PROVE EngineInv' /\ KeepsCode
<1>1. batch' \in GoodBatches
  BY AppendGood DEF ReadText, EngineInv, EngineOK
<1>2. /\ pc = "next"
      /\ UNCHANGED <<settings, nesting, frames, exitcode, pc, call, ret, seen>>
  BY DEF ReadText
<1>3. NestingRestores'
  BY <1>2 DEF EngineInv, NestingRestores, nesting, Depth, ReaderOf, EditBelow,
              WellNested
<1>4. EngineOK'
  BY <1>1, <1>2 DEF EngineInv, EngineOK, settings, nesting, Depth
<1>5. QED
  BY <1>2, <1>3, <1>4 DEF EngineInv, ReadOnlyHolds, KeepsCode

LEMMA ReadEofStep ==
  ASSUME EngineInv, ReadEof PROVE EngineInv' /\ KeepsCode
<1>1. pc = "next" /\ StackLike(frames)
  BY StackLikeFrames DEF ReadEof
<1>2. CASE /\ pc' = "return"
           /\ ret' = IF IsEmpty(batch) THEN Top.lastError ELSE "none"
           /\ UNCHANGED <<settings, nesting, frames, batch, exitcode, call, seen>>
  <2>1. Top \in Frames
    BY <1>1 DEF StackLike, EngineInv, EngineOK, Top, Depth
  <2>2. ret' \in {"none", "err", "ctrlc"}
    BY <1>2, <2>1 DEF Frames
  <2>3. NestingRestores' /\ Depth' <= MaxDepth
    BY <1>1, <1>2, KeepsNesting DEF StackLike
  <2>4. EngineOK'
    BY <1>2, <2>2, <2>3 DEF EngineInv, EngineOK, settings, nesting
  <2>5. QED
    BY <1>2, <2>3, <2>4 DEF EngineInv, ReadOnlyHolds, KeepsCode
<1>3. CASE GoCommand([frames EXCEPT ![Depth].once = TRUE], batch, 1)
  <2> DEFINE g == [frames EXCEPT ![Depth].once = TRUE]
  <2>1. g = [frames EXCEPT ![Len(frames)].once = TRUE]
    BY DEF Depth
  <2> HIDE DEF g
  <2>2. g \in Seq(Frames) /\ SameShape(frames, g)
    BY <1>1, <2>1, SetOnce DEF StackLike
  <2>3. StackLike(g)
    BY <1>1, <2>2 DEF StackLike, SameShape
  <2>4. batch \in GoodBatches /\ 1 \in 1..MaxGo
    BY BoundsAssumption DEF EngineInv, EngineOK
  <2>5. GoCommand(g, batch, 1)
    BY <1>3 DEF g
  <2>6. QED
    BY <2>3, <2>4, <2>5, GoStep
<1>4. QED
  BY <1>2, <1>3 DEF ReadEof

(* QueryOutcomes is typed, and only a query without an error can give 0.   *)
LEMMA OutcomeFacts ==
  ASSUME NEW onError \in BOOLEAN, NEW lvl \in 0..255, NEW code \in Codes,
         NEW o \in QueryOutcomes(onError, lvl, code)
  PROVE  /\ o.err \in {"none", "err", "exit"}
         /\ o.exit \in Codes /\ o.code \in Codes
         /\ o.exit = 0 => code = 0
         /\ o.err # "none" => o.code # 0
<1>1. Fatal(lvl) \subseteq Severities /\ Noted(onError, lvl) \subseteq Severities
  BY DEF Fatal, Noted
<1>2. Severities \subseteq Codes /\ 0 \notin Severities
  BY CodesAssumption DEF Codes
<1>3. 0 \notin ErrNumbers /\ ErrNumbers \subseteq Codes /\ RowCodes \subseteq Codes
      /\ {NoRows, Failed, NotANumber, 0, 1} \subseteq Codes
  BY CodesAssumption DEF Codes
<1> DEFINE exits == {code} \cup Noted(onError, lvl)
<1>4. exits \subseteq Codes /\ (0 \in exits => code = 0)
  BY <1>1, <1>2
<1>5. CASE o \in [err : {"none"}, exit : exits,
                  code : {NoRows, Failed, NotANumber, 0} \cup RowCodes
                           \cup Noted(onError, lvl)]
  BY <1>1, <1>2, <1>3, <1>4, <1>5
<1>6. CASE o \in [err : {"exit"}, exit : exits, code : ErrNumbers]
  BY <1>3, <1>4, <1>6
<1>7. CASE o \in [err : {"err"}, exit : exits, code : {NoRows, Failed}]
  BY <1>3, <1>4, <1>7 DEF NoRows, Failed
<1>8. CASE \E s \in Fatal(lvl) :
             o = [err |-> "exit", exit |-> IF lvl > 0 THEN s ELSE code,
                  code |-> IF lvl > 0 THEN s ELSE 1]
  BY <1>1, <1>2, <1>3, <1>8
<1>9. QED
  BY <1>5, <1>6, <1>7, <1>8 DEF QueryOutcomes

LEMMA QueryReturnsStep ==
  ASSUME EngineInv, QueryReturns
  PROVE  EngineInv' /\ (call.by = "go" => KeepsCode)
<1>1. pc = "query" /\ StackLike(frames) /\ UNCHANGED <<settings, nesting>>
  BY StackLikeFrames DEF QueryReturns
<1>2. /\ opt' \in Options /\ exitOnError' \in BOOLEAN /\ ignoreError' \in BOOLEAN
      /\ batch \in GoodBatches /\ call \in Calls /\ NoCall \in Calls
      /\ exitOnError \in BOOLEAN /\ opt.level \in 0..255 /\ exitcode \in Codes
  BY <1>1, BoundsAssumption
  DEF EngineInv, EngineOK, settings, Options, NoCall, Calls
<1>3. PICK o \in QueryOutcomes(exitOnError, opt.level, exitcode) :
         \/ /\ call.by = "go" /\ o.err = "none" /\ call.left > 1
            /\ call' = [call EXCEPT !.left = @ - 1]
            /\ batch' = RanOnce(batch)
            /\ exitcode' = GoKeeps(o)
            /\ UNCHANGED <<frames, pc, ret, seen>>
         \/ /\ call.by = "go" /\ o.err = "none" /\ call.left = 1
            /\ batch' = GoDone(batch)
            /\ call' = NoCall
            /\ Settle(frames, "none", GoKeeps(o))
            /\ UNCHANGED seen
         \/ /\ call.by = "go" /\ o.err # "none"
            /\ batch' = LeftOver(batch, o)
            /\ call' = NoCall
            /\ Settle(frames, o.err, GoFails(o))
            /\ seen' = [err |-> TRUE, ends |-> EndedBy(frames, o.err)]
         \/ /\ call.by = "exit"
            /\ batch' = LeftOver(batch, o)
            /\ call' = NoCall
            /\ Settle(frames, "exit", o.code)
            /\ SawForced({Depth})
  BY Zenon DEF QueryReturns
<1>4. /\ o.exit \in Codes /\ o.code \in Codes
      /\ o.exit = 0 => exitcode = 0
      /\ o.err # "none" => o.code # 0
  <2>1. exitOnError \in BOOLEAN /\ opt.level \in 0..255 /\ exitcode \in Codes
    BY <1>2, Zenon
  <2>2. QED
    BY <2>1, OutcomeFacts
<1>5. RanOnce(batch) \in GoodBatches /\ LeftOver(batch, o) \in GoodBatches
  BY <1>2 DEF RanOnce, LeftOver, GoodBatches, Batches
<1>6. Depth = Len(frames) /\ Depth \in 1..MaxDepth
  BY <1>1, StackDepth DEF Depth, EngineInv
<1>7. CASE /\ call.by = "go" /\ o.err = "none" /\ call.left > 1
           /\ call' = [call EXCEPT !.left = @ - 1]
           /\ batch' = RanOnce(batch)
           /\ exitcode' = GoKeeps(o)
           /\ UNCHANGED <<frames, pc, ret, seen>>
  <2>1. call' \in Calls /\ call'.write = call.write
    BY <1>2, <1>7, BoundsAssumption DEF Calls
  <2>2. NestingRestores' /\ Depth' <= MaxDepth
    BY <1>1, <1>7, KeepsNesting DEF StackLike
  <2>3. EngineOK'
    BY <1>1, <1>2, <1>4, <1>5, <1>7, <2>1, <2>2
    DEF EngineInv, EngineOK, nesting, GoKeeps
  <2>4. ReadOnlyHolds'
    BY <1>1, <1>7, <2>1 DEF EngineInv, ReadOnlyHolds, settings
  <2>5. QED
    BY <1>4, <1>7, <2>2, <2>3, <2>4 DEF EngineInv, KeepsCode, GoKeeps
<1>8. CASE /\ call.by = "go" /\ o.err = "none" /\ call.left = 1
           /\ batch' = GoDone(batch)
           /\ call' = NoCall
           /\ Settle(frames, "none", GoKeeps(o))
           /\ UNCHANGED seen
  <2>1. /\ batch' \in GoodBatches /\ call' \in Calls
        /\ seen' \in Seen
    BY <1>2, <1>8, ResetGood DEF GoDone, EngineInv, EngineOK
  <2>2. Settle(frames, "none", o.exit)
    BY <1>8 DEF GoKeeps
  <2>3. EngineInv'
    BY <1>1, <1>2, <1>4, <2>1, <2>2, SettleStep
  <2>4. KeepsCode
    BY <1>1, <1>4, <2>2, SettleFacts DEF KeepsCode, StackLike
  <2>5. QED
    BY <2>3, <2>4
<1>9. CASE /\ call.by = "go" /\ o.err # "none"
           /\ batch' = LeftOver(batch, o)
           /\ call' = NoCall
           /\ Settle(frames, o.err, GoFails(o))
           /\ seen' = [err |-> TRUE, ends |-> EndedBy(frames, o.err)]
  <2>1. /\ batch' \in GoodBatches /\ call' \in Calls
        /\ seen' \in Seen
    BY <1>2, <1>5, <1>6, <1>9, EndedSmall DEF Seen
  <2>2. Settle(frames, o.err, o.code)
    BY <1>9 DEF GoFails
  <2>3. EngineInv'
    BY <1>1, <1>2, <1>4, <2>1, <2>2, SettleStep
  <2>4. KeepsCode
    BY <1>1, <1>4, <1>9, <2>2, SettleFacts DEF KeepsCode, StackLike
  <2>5. QED
    BY <2>3, <2>4
<1>10. CASE /\ call.by = "exit"
            /\ batch' = LeftOver(batch, o)
            /\ call' = NoCall
            /\ Settle(frames, "exit", o.code)
            /\ SawForced({Depth})
  <2>1. /\ batch' \in GoodBatches /\ call' \in Calls
        /\ seen' \in Seen
    BY <1>2, <1>5, <1>6, <1>10, ForcedTyped
  <2>2. EngineInv'
    BY <1>1, <1>2, <1>4, <1>10, <2>1, SettleStep
  <2>3. QED
    BY <1>10, <2>2
<1>11. QED
  BY <1>3, <1>7, <1>8, <1>9, <1>10
-----------------------------------------------------------------------------
(* The return of a Run.                                                    *)

LEMMA RunReturnsStep ==
  ASSUME EngineInv, RunReturns PROVE EngineInv' /\ KeepsCode
<1>1. pc = "return" /\ StackLike(frames) /\ UNCHANGED <<settings, call>>
  BY StackLikeFrames DEF RunReturns
<1>2. /\ frames \in Seq(Frames) /\ Depth > 0 /\ Top \in Frames
      /\ reader = ReaderOf(frames, Depth) /\ echo = EditBelow(frames, Depth)
      /\ WellNested(frames) /\ reader \in 0..MaxDepth /\ echo \in BOOLEAN
  BY <1>1 DEF StackLike, EngineInv, EngineOK, NestingRestores, Top, Depth
<1>3. batch' \in GoodBatches
  BY IncludeGood DEF RunReturns, EngineInv, EngineOK
<1>4. \/ Top.kind = "run" /\ reader' = reader /\ echo' = echo
      \/ Top.kind # "run" /\ reader' = Top.curLine /\ echo' = Top.wasEcho
  BY DEF RunReturns, EchoAfter
<1>5. /\ opt' \in Options /\ call' \in Calls
      /\ exitOnError' \in BOOLEAN /\ ignoreError' \in BOOLEAN
  BY <1>1 DEF EngineInv, EngineOK, settings
<1>6. CASE Depth = 1
  <2>1. /\ frames' = <<>> /\ pc' = "idle"
        /\ UNCHANGED <<exitcode, ret>> /\ seen' \in Seen
    BY <1>6 DEF RunReturns, EngineInv, EngineOK, Seen
  <2>2. reader' = 0 /\ echo' = FALSE
    <3>1. CASE Top.kind = "run"
      BY <1>2, <1>4, <1>6, <3>1, OneRun DEF Top
    <3>2. CASE Top.kind # "run"
      <4>1. Top.curLine = ReaderOf(frames, 0) /\ Top.wasEcho = EditBelow(frames, 0)
        BY <1>2, <1>6, <3>2 DEF WellNested, Top, Depth
      <4>2. QED
        BY <1>4, <3>2, <4>1, NothingBelow
    <3>3. QED
      BY <3>1, <3>2
  <2>3. NestingRestores'
    <3>1. Len(frames') = 0 /\ WellNested(frames')
      BY <2>1 DEF WellNested
    <3>2. QED
      BY <2>1, <2>2, <3>1, NothingBelow DEF NestingRestores, Depth
  <2>4. EngineOK'
    <3>1. frames' \in Seq(Frames) /\ Depth' <= MaxDepth /\ 0 \in 0..MaxDepth
      BY <2>1, BoundsAssumption DEF Depth
    <3>2. QED
      BY <1>3, <1>5, <2>1, <2>2, <3>1 DEF EngineInv, EngineOK
  <2>5. QED
    BY <2>1, <2>3, <2>4 DEF EngineInv, ReadOnlyHolds, KeepsCode
<1>7. CASE Depth # 1
  <2> DEFINE fs == SubSeq(frames, 1, Depth - 1)
             e == IF Top.kind = "edit" THEN "none" ELSE ret
  <2>1. Settle(fs, e, exitcode) /\ SawError(fs, e)
    BY <1>7 DEF RunReturns
  <2>2. fs = SubSeq(frames, 1, Len(frames) - 1) /\ Len(frames) > 1
    <3>1. Len(frames) \in Nat /\ Len(frames) > 0 /\ Len(frames) # 1
      BY <1>2, <1>7 DEF Depth
    <3>2. Depth = Len(frames)
      BY DEF Depth
    <3>3. QED
      BY <3>1, <3>2
  <2> HIDE DEF fs, e
  <2>3. /\ fs \in Seq(Frames) /\ Len(fs) = Len(frames) - 1 /\ WellNested(fs)
        /\ Top.kind # "run"
        /\ Top.curLine = ReaderOf(fs, Len(fs))
        /\ Top.wasEcho = EditBelow(fs, Len(fs))
    BY <1>2, <2>2, PopNested DEF Top, Depth
  <2>4. exitcode \in Codes
    BY DEF EngineInv, EngineOK
  <2>5. /\ frames' \in Seq(Frames) /\ SameShape(fs, frames')
        /\ exitcode' \in Codes
        /\ pc' \in {"next", "return"} /\ ret' \in {"none", "err"}
        /\ exitcode' = 0 => exitcode = 0
    <3>1. Len(fs) > 0
      BY <1>2, <2>2, <2>3
    <3>2. QED
      BY <2>1, <2>3, <2>4, <3>1, SettleFacts
  <2>6. /\ WellNested(frames')
        /\ ReaderOf(frames', Len(frames')) = ReaderOf(fs, Len(fs))
        /\ EditBelow(frames', Len(frames')) = EditBelow(fs, Len(fs))
        /\ Len(frames') = Len(fs)
    BY <2>3, <2>5, ShapeDecides DEF SameShape
  <2>7. NestingRestores'
    <3>1. frames' # <<>>
      BY <2>2, <2>3, <2>6
    <3>2. QED
      BY <1>4, <2>3, <2>5, <2>6, <3>1 DEF NestingRestores, Depth
  <2>8. EngineOK'
    <3>1. Depth' <= MaxDepth
      BY <2>2, <2>3, <2>6, BoundsAssumption DEF Depth, EngineInv, EngineOK
    <3>2. reader' \in 0..MaxDepth
      BY <1>4, <2>2, <2>3, <2>6, <3>1, BoundsAssumption DEF ReaderOf, Depth
    <3>3. echo' \in BOOLEAN
      BY <1>4, <2>3 DEF EditBelow
    <3>4. seen' \in Seen
      <4>1. Len(fs) \in 1..MaxDepth
        BY <2>2, <2>3, BoundsAssumption DEF EngineInv, EngineOK, Depth
      <4>2. QED
        BY <2>1, <4>1, SawTyped DEF EngineInv
    <3>5. QED
      BY <1>3, <1>5, <2>5, <3>1, <3>2, <3>3, <3>4 DEF EngineOK
  <2>9. QED
    BY <2>5, <2>7, <2>8 DEF EngineInv, ReadOnlyHolds, KeepsCode
<1>8. QED
  BY <1>6, <1>7

(* Every engine step; ctrl-c and EXIT(query) may clear the exit code.      *)
LEMMA EngineStep ==
  ASSUME EngineInv, EngineNext
  PROVE  /\ EngineInv'
         /\ \/ KeepsCode
            \/ pc = "query" /\ call.by = "exit"
            \/ pc = "next" /\ pc' = "return" /\ ret' = "ctrlc"
<1>1. CASE ReadText
  BY <1>1, ReadTextStep
<1>2. CASE ReadMalformed
  BY <1>2, ResetGood, NextFailsStep DEF ReadMalformed
<1>3. CASE ReadFault
  BY <1>3, NextFailsStep DEF ReadFault, EngineInv, EngineOK
<1>4. CASE CtrlC
  <2>1. /\ pc = "next" /\ pc' = "return" /\ ret' = "ctrlc" /\ exitcode' = 0
        /\ UNCHANGED <<settings, nesting, frames, batch, call>>
        /\ SawForced({Depth})
    BY <1>4 DEF CtrlC
  <2>2. NestingRestores' /\ Depth' <= MaxDepth
    BY <2>1, StackLikeFrames, KeepsNesting DEF StackLike
  <2>3. seen' \in Seen /\ 0 \in Codes
    <3>1. Depth \in 1..MaxDepth
      BY <2>1, StackLikeFrames, StackDepth DEF Depth, EngineInv
    <3>2. QED
      BY <2>1, <3>1, ForcedTyped DEF Codes
  <2>4. EngineOK'
    BY <2>1, <2>2, <2>3 DEF EngineInv, EngineOK, settings, nesting
  <2>5. QED
    BY <2>1, <2>2, <2>4 DEF EngineInv, ReadOnlyHolds
<1>5. CASE ReadEof
  BY <1>5, ReadEofStep
<1>6. CASE ReadCommand
  BY <1>6, CommandStep DEF ReadCommand, EngineInv, EngineOK
<1>7. CASE RunQueryText
  <2>1. PICK l \in TextLines(ResetBatch) :
          GoCommand(frames, AppendLine(ResetBatch, l), 1)
    BY <1>7 DEF RunQueryText
  <2>2. AppendLine(ResetBatch, l) \in GoodBatches /\ 1 \in 1..MaxGo
    BY ResetGood, AppendGood, BoundsAssumption
  <2>3. StackLike(frames)
    BY <1>7, StackLikeFrames DEF RunQueryText
  <2>4. QED
    BY <2>1, <2>2, <2>3, GoStep
<1>8. CASE RunQueryMalformed
  <2>1. /\ pc = "first" /\ batch' = ResetBatch
        /\ UNCHANGED <<settings, nesting, call>>
        /\ Settle(frames, "none", exitcode) /\ SawLost
    BY <1>8 DEF RunQueryMalformed
  <2>2. StackLike(frames)
    BY <2>1, StackLikeFrames
  <2>3. /\ opt' \in Options /\ call' \in Calls /\ exitcode \in Codes
        /\ exitOnError' \in BOOLEAN /\ ignoreError' \in BOOLEAN
    BY <2>1 DEF EngineInv, EngineOK, settings
  <2>4. seen' \in Seen
    BY <2>1, LostTyped DEF EngineInv
  <2>5. EngineInv'
    BY <2>1, <2>2, <2>3, <2>4, ResetGood, SettleStep
  <2>6. QED
    BY <2>1, <2>2, <2>3, <2>5, SettleFacts DEF KeepsCode, StackLike
<1>9. CASE RunQueryCommand
  <2>1. PICK rest \in BOOLEAN : Command(frames, [ResetBatch EXCEPT !.raw = rest])
    BY <1>9 DEF RunQueryCommand
  <2>2. [ResetBatch EXCEPT !.raw = rest] \in GoodBatches
    BY DEF ResetBatch, GoodBatches, Batches
  <2>3. QED
    BY <1>9, <2>1, <2>2, CommandStep DEF RunQueryCommand
<1>10. CASE QueryReturns
  <2>1. pc = "query" /\ call.by \in {"go", "exit"}
    BY <1>10 DEF QueryReturns, EngineInv, EngineOK, Calls
  <2>2. QED
    BY <1>10, <2>1, QueryReturnsStep
<1>11. CASE RunReturns
  BY <1>11, RunReturnsStep
<1>12. QED
  BY <1>1, <1>2, <1>3, <1>4, <1>5, <1>6, <1>7, <1>8, <1>9, <1>10, <1>11
  DEF EngineNext
-----------------------------------------------------------------------------
(* The process.                                                            *)

LEMMA StartRunStep ==
  ASSUME EngineInv, NEW once \in BOOLEAN, NEW all \in BOOLEAN, NEW query \in BOOLEAN,
         StartRun(once, all, query)
  PROVE  EngineInv' /\ KeepsCode
<1> DEFINE fr == [once |-> once, processAll |-> all, lastError |-> "none",
                  kind |-> "run", curLine |-> reader, wasEcho |-> echo]
<1>1. /\ pc = "idle" /\ frames' = <<fr>> /\ pc' \in {"first", "next"}
      /\ UNCHANGED <<settings, reader, echo, batch, exitcode, call, ret, seen>>
  BY DEF StartRun
<1>2. fr \in Frames /\ fr.kind = "run"
  BY DEF Frames, EngineInv, EngineOK
<1> HIDE DEF fr
<1>3. frames' \in Seq(Frames) /\ Len(frames') = 1 /\ frames'[1] = fr
  BY <1>1, <1>2
<1>4. reader = 0 /\ echo = FALSE
  <2>1. frames = <<>> /\ Depth = 0
    BY <1>1 DEF EngineInv, NestingRestores, Depth
  <2>2. QED
    BY <2>1, NothingBelow DEF EngineInv, NestingRestores
<1>5. NestingRestores'
  <2>1. WellNested(frames')
    BY <1>2, <1>3 DEF WellNested
  <2>2. ReaderOf(frames', 1) = 0 /\ EditBelow(frames', 1) = FALSE
    BY <1>2, <1>3, OneRun
  <2>3. QED
    BY <1>1, <1>3, <1>4, <2>1, <2>2 DEF NestingRestores, Depth
<1>6. EngineOK'
  <2>1. Depth' <= MaxDepth
    BY <1>3, BoundsAssumption DEF Depth
  <2>2. QED
    BY <1>1, <1>3, <2>1 DEF EngineInv, EngineOK, settings
<1>7. QED
  BY <1>1, <1>5, <1>6 DEF EngineInv, ReadOnlyHolds, KeepsCode

LEMMA StartFileStep ==
  ASSUME EngineInv, StartFile PROVE EngineInv' /\ KeepsCode
<1>1. pc = "idle" /\ IncludeFile(<<>>, batch, "file", TRUE)
  BY DEF StartFile
<1>2. frames = <<>> /\ batch \in GoodBatches
  BY <1>1 DEF EngineInv, EngineOK, NestingRestores
<1>3. <<>> \in Seq(Frames) /\ SameShape(frames, <<>>)
  BY <1>2 DEF SameShape
<1>4. QED
  BY <1>1, <1>2, <1>3, IncludeStep

(* Only the exit code, or nothing, of the engine changes.                  *)
LEMMA HostStep ==
  ASSUME EngineInv, exitcode' \in Codes, seen' \in Seen,
         UNCHANGED <<opt, frames, reader, echo, batch, exitOnError, ignoreError,
                     pc, call, ret>>
  PROVE  EngineInv'
<1>1. NestingRestores'
  BY DEF EngineInv, NestingRestores, Depth, ReaderOf, EditBelow, WellNested
<1>2. EngineOK'
  BY DEF EngineInv, EngineOK, Depth
<1>3. QED
  BY <1>1, <1>2 DEF EngineInv, ReadOnlyHolds

LEMMA NothingRuns ==
  ASSUME frames = <<>>, pc = "idle", reader = 0, echo = FALSE PROVE NestingRestores
<1>1. Depth = 0 /\ WellNested(frames)
  BY DEF Depth, WellNested
<1>2. QED
  BY <1>1, NothingBelow DEF NestingRestores

LEMMA InitInv == Init => IInv
<1> SUFFICES ASSUME Init PROVE IInv
  OBVIOUS
<1>1. PICK start \in Starts : mode = start[1] /\ EngineInit(start[2])
  BY DEF Init
<1>2. mode \in Modes /\ start[2] \in Options
  BY <1>1, StartsAssumption
<1>3. HostOK
  BY <1>2, StartsAssumption DEF Init, HostOK, Hosts
<1>4. NestingRestores
  BY <1>1, NothingRuns DEF EngineInit
<1>5. EngineOK
  <2>1. NoCall \in Calls /\ 0 \in Codes /\ 0 \in 0..MaxDepth
    BY BoundsAssumption DEF NoCall, Calls, Codes
  <2>2. frames \in Seq(Frames) /\ Depth <= MaxDepth
    BY <1>1, BoundsAssumption DEF EngineInit, Depth
  <2>3. seen \in Seen
    BY <1>1 DEF EngineInit, Seen
  <2>4. QED
    BY <1>1, <1>2, <2>1, <2>2, <2>3, ResetGood DEF EngineOK, EngineInit, Options
<1>6. ReadOnlyHolds
  BY <1>1 DEF ReadOnlyHolds, EngineInit
<1>7. QED
  BY <1>3, <1>4, <1>5, <1>6 DEF IInv, EngineInv

(* What may clear a nonzero exit code.                                     *)
ClearsCode ==
  \/ pc = "query" /\ call.by = "exit"
  \/ pc = "next" /\ pc' = "return" /\ ret' = "ctrlc"
  \/ host' = "killed"

LEMMA NextInv ==
  ASSUME IInv, Next PROVE IInv' /\ (KeepsCode \/ ClearsCode)
<1>1. EngineInv /\ HostOK /\ exitcode \in Codes /\ 0 \in Codes /\ 1 \in Codes
      /\ seen \in Seen
  BY DEF IInv, EngineInv, EngineOK, Codes
<1>2. CASE Engine
  BY <1>1, <1>2, EngineStep DEF Engine, HostOK, IInv, ClearsCode
<1>3. CASE Connect
  BY <1>1, <1>3, HostStep
  DEF Connect, Goto, HostOK, Hosts, IInv, KeepsCode, engine
<1>4. CASE StartupScript
  <2>1. HostOK'
    BY <1>1, <1>4 DEF StartupScript, Goto, HostOK, Hosts
  <2>2. EngineInv' /\ KeepsCode
    BY <1>1, <1>4, StartFileStep, HostStep DEF StartupScript, engine, KeepsCode
  <2>3. QED
    BY <2>1, <2>2 DEF IInv
<1>5. CASE ScriptDone
  BY <1>1, <1>5, HostStep
  DEF ScriptDone, Goto, HostOK, Hosts, IInv, KeepsCode, engine
<1>6. CASE Main
  <2>1. HostOK'
    BY <1>1, <1>6 DEF Main, Goto, HostOK, Hosts
  <2>2. EngineInv' /\ KeepsCode
    <3>1. CASE StartRun(mode = "query", ProcessAll, Asks)
      <4> DEFINE once == mode = "query"
                 all == ProcessAll
                 query == Asks
      <4>1. once \in BOOLEAN /\ all \in BOOLEAN /\ query \in BOOLEAN
        BY DEF ProcessAll, Asks
      <4>2. StartRun(once, all, query)
        BY <3>1
      <4> HIDE DEF once, all, query
      <4>3. QED
        BY <1>1, <4>1, <4>2, StartRunStep
    <3>2. CASE UNCHANGED engine
      BY <1>1, <3>2, HostStep DEF engine, KeepsCode
    <3>3. QED
      BY <1>6, <3>1, <3>2 DEF Main
  <2>3. QED
    BY <2>1, <2>2 DEF IInv
<1>7. CASE RunDone
  BY <1>1, <1>7, HostStep
  DEF RunDone, Goto, HostOK, Hosts, IInv, KeepsCode, engine
<1>8. CASE NextFile
  <2>1. HostOK'
    <3>1. /\ host' \in Hosts /\ mode' = mode
          /\ file' = file \/ (file < MaxFiles /\ file' = file + 1)
      BY <1>8 DEF NextFile, FileFails, Goto, Hosts
    <3>2. QED
      BY <1>1, <3>1, StartsAssumption DEF HostOK
  <2>2. EngineInv' /\ KeepsCode
    <3>1. CASE StartFile
      BY <1>1, <3>1, StartFileStep
    <3>2. CASE FileFails("files") /\ SawLost
      <4>1. seen' \in Seen
        BY <1>1, <3>2, LostTyped DEF EngineInv
      <4>2. QED
        BY <1>1, <3>2, <4>1, HostStep DEF FileFails, KeepsCode
    <3>3. CASE UNCHANGED engine
      BY <1>1, <3>3, HostStep DEF engine, KeepsCode
    <3>4. QED
      BY <1>8, <3>1, <3>2, <3>3 DEF NextFile
  <2>3. QED
    BY <2>1, <2>2 DEF IInv
<1>9. CASE FileDone
  <2>1. HostOK'
    BY <1>1, <1>9 DEF FileDone, FileFails, Goto, HostOK, Hosts
  <2>2. EngineInv' /\ KeepsCode
    BY <1>1, <1>9, HostStep DEF FileDone, FileFails, engine, KeepsCode
  <2>3. QED
    BY <2>1, <2>2 DEF IInv
<1>10. CASE Signal
  <2>1. /\ host' = "killed" /\ exitcode' = 0 /\ frames' = <<>> /\ reader' = 0
        /\ echo' = FALSE /\ batch' = ResetBatch /\ pc' = "idle"
        /\ call' = NoCall /\ ret' = "none" /\ SawForced({})
        /\ UNCHANGED <<settings, mode, file>>
    BY <1>10 DEF Signal
  <2>2. seen' \in Seen
    BY <1>1, <2>1, ForcedTyped
  <2>3. NoCall \in Calls /\ 0 \in 0..MaxDepth
    BY BoundsAssumption DEF NoCall, Calls
  <2>4. frames' \in Seq(Frames) /\ Depth' <= MaxDepth
    BY <2>1, BoundsAssumption DEF Depth
  <2>5. EngineOK'
    BY <1>1, <2>1, <2>2, <2>3, <2>4, ResetGood DEF EngineInv, EngineOK, settings
  <2>6. NestingRestores'
    <3>1. Depth' = 0 /\ WellNested(frames')
      BY <2>1 DEF Depth, WellNested
    <3>2. QED
      BY <2>1, <3>1, NothingBelow DEF NestingRestores
  <2>7. HostOK'
    BY <1>1, <2>1 DEF HostOK, Hosts
  <2>8. QED
    BY <2>1, <2>5, <2>6, <2>7 DEF IInv, EngineInv, ReadOnlyHolds, ClearsCode
<1>11. CASE Stopped
  BY <1>1, <1>11, HostStep DEF Stopped, vars, engine, HostOK, IInv, KeepsCode
<1>12. QED
  BY <1>2, <1>3, <1>4, <1>5, <1>6, <1>7, <1>8, <1>9, <1>10, <1>11 DEF Next

LEMMA StutterInv == ASSUME IInv, UNCHANGED vars PROVE IInv'
BY HostStep DEF IInv, vars, engine, HostOK, EngineInv, EngineOK

LEMMA Inductive == Spec => []IInv
<1>1. IInv /\ [Next]_vars => IInv'
  BY NextInv, StutterInv
<1>2. QED
  BY InitInv, <1>1, PTL DEF Spec

(* In every reachable state of every instance the variables have their     *)
(* types.                                                                  *)
THEOREM TypesCorrect == Spec => []TypeOK
<1>1. IInv => TypeOK
  BY DEF IInv, EngineInv, EngineOK, HostOK, TypeOK, GoodBatches
<1>2. QED
  BY Inductive, <1>1, PTL

(* However deep :r and ED nest, every Run reads from its own file, and     *)
(* IncludeFile gives the reader and the echo of the caller back.           *)
THEOREM NestingRestored == Spec => []NestingRestores
<1>1. IInv => NestingRestores
  BY DEF IInv, EngineInv
<1>2. QED
  BY Inductive, <1>1, PTL

(* Next never enters a variable behind a separator append will not write.  *)
THEOREM SeparatorsCounted == Spec => []SeparatorCounted
<1>1. IInv => SeparatorCounted
  BY DEF IInv, EngineInv, EngineOK, GoodBatches, SeparatorCounted
<1>2. QED
  BY Inductive, <1>1, PTL

(* No path through GO, the end of a file or EXIT sends a query that        *)
(* read-only mode rejects.                                                 *)
THEOREM ReadOnlyMode == Spec => []ReadOnlyHolds
<1>1. IInv => ReadOnlyHolds
  BY DEF IInv, EngineInv
<1>2. QED
  BY Inductive, <1>1, PTL

(* Only EXIT(query), ctrl-c and a signal return a nonzero exit code to 0.  *)
THEOREM ExitCodeKept == Spec => NonzeroExitKept
<1> DEFINE A == exitcode # 0 /\ exitcode' = 0 => ClearsCode
<1>1. IInv /\ [Next]_vars => [A]_vars
  BY NextInv DEF KeepsCode
<1>2. Spec => [][A]_vars
  BY Inductive, <1>1, PTL DEF Spec
<1>3. QED
  BY <1>2 DEF NonzeroExitKept, ClearsCode
-----------------------------------------------------------------------------
(* Errors, exit codes and what has been sent.                              *)
(*                                                                         *)
(* Outcome is the second inductive invariant.  None of NoSilentReplay,     *)
(* ErrorEndsRun and ErrorLevelSet is inductive: they speak of the moments  *)
(* when Run reads, or the process ends, and an error is in flight in       *)
(* between - in the Runs it has to end, one after the other, and in a GO n *)
(* with runs left.  Outcome says where.                                    *)

(* -b, and ON ERROR ignore has not been met.                               *)
Strict == opt.onError /\ ~ignoreError

(* Runs that have to end are only there while one returns; those below it  *)
(* will get its error and may not go on.                                   *)
EndsPassed ==
  /\ seen.ends # {} => pc = "return"
  /\ \A k \in seen.ends :
       k < Depth => /\ ret = "err" /\ exitOnError /\ ~ignoreError
                    /\ \A j \in (k + 1)..Depth :
                         frames[j].kind # "edit" /\ ~frames[j].once

(* A Run told to stop after one command never reads again.                 *)
OnceReturns ==
  mode # "query" => \A k \in 1..Depth :
              frames[k].once => k = Depth /\ pc \in {"query", "return"}

(* At every moment, not only at the end.                                   *)
ErrorLevel == Strict /\ ~Asks /\ seen.err => exitcode # 0

(* Text that has just run is in the buffer while its GO n is not over.     *)
SentHere == batch.sent = "ran" => pc = "query" /\ call.by = "go"

Outcome ==
  /\ Strict => exitOnError
  /\ EndsPassed /\ OnceReturns /\ ErrorLevel /\ SentHere
  /\ pc = "first" => Asks

(* What an engine step may assume.                                         *)
Ready == EngineInv /\ Outcome /\ UNCHANGED <<mode, host>>

(* The frames up to n were not told to stop after one command.             *)
Clean(fs, n) == \A k \in 1..n : mode # "query" => ~fs[k].once

Accounted(b) == b.sent # "ran"

LEMMA NoEnds == ASSUME seen'.ends = {} PROVE EndsPassed'
BY DEF EndsPassed

LEMMA NoneToEnd ==
  ASSUME Outcome, pc # "return" PROVE seen.ends = {}
BY DEF Outcome, EndsPassed

LEMMA SawFacts ==
  ASSUME NEW fs, NEW e, SawError(fs, e)
  PROVE  /\ seen'.err => seen.err \/ e = "err"
         /\ seen'.ends = EndedBy(fs, e) \cup (seen.ends \cap (1..Len(fs)))
BY DEF SawError

(* Settle ends the Runs that e has to end, or hands e to them.             *)
LEMMA SettleEnds ==
  ASSUME NEW fs \in Seq(Frames), Len(fs) > 0, NEW e, NEW code,
         Settle(fs, e, code), UNCHANGED <<exitOnError, ignoreError>>,
         seen'.ends \subseteq EndedBy(fs, e)
  PROVE  EndsPassed'
<1> DEFINE d == Len(fs)
           leave == Leaves(fs[d], e)
           v == IF e = "err" /\ ~leave THEN "err" ELSE "none"
           abort == ~leave /\ e = "err" /\ Aborts(exitOnError', ignoreError')
<1>1. /\ frames' = [fs EXCEPT ![d].lastError = v]
      /\ pc' = IF leave \/ abort THEN "return" ELSE "next"
      /\ ret' = IF abort THEN "err" ELSE "none"
  BY DEF Settle
<1>2. \A k \in 1..d : fs[k] \in Frames
  OBVIOUS
<1> HIDE DEF v
<1>3. /\ Depth' = d /\ d \in Nat
      /\ \A k \in 1..d : /\ frames'[k].once = fs[k].once
                         /\ frames'[k].kind = fs[k].kind
  BY <1>1, <1>2 DEF Depth, Frames
<1>4. CASE e = "exit"
  <2>1. seen'.ends \subseteq {d} /\ pc' = "return"
    BY <1>1, <1>4 DEF EndedBy, Leaves
  <2>2. QED
    BY <1>3, <2>1 DEF EndsPassed
<1>5. CASE e = "err" /\ exitOnError /\ ~ignoreError
  <2>1. seen'.ends \subseteq
          {k \in 1..d : \A j \in (k + 1)..d : fs[j].kind # "edit" /\ ~fs[j].once}
    BY <1>5 DEF EndedBy
  <2>2. leave \/ abort
    BY <1>5 DEF Aborts
  <2>3. ASSUME NEW k \in seen'.ends, k < d
        PROVE  /\ ret' = "err"
               /\ \A j \in (k + 1)..d : frames'[j].kind # "edit" /\ ~frames'[j].once
    <3>1. k \in 1..d /\ \A j \in (k + 1)..d : fs[j].kind # "edit" /\ ~fs[j].once
      BY <2>1
    <3>2. d \in (k + 1)..d /\ \A j \in (k + 1)..d : j \in 1..d
      BY <1>3, <2>3, <3>1
    <3>3. ~leave
      BY <1>5, <3>1, <3>2 DEF Leaves
    <3>4. QED
      BY <1>1, <1>3, <2>2, <3>1, <3>2, <3>3
  <2>4. QED
    BY <1>1, <1>3, <1>5, <2>2, <2>3 DEF EndsPassed
<1>6. CASE ~(e = "exit") /\ ~(e = "err" /\ exitOnError /\ ~ignoreError)
  <2>1. EndedBy(fs, e) = {}
    BY <1>6, Zenon DEF EndedBy
  <2>2. QED
    BY <2>1, NoEnds
<1>7. QED
  BY <1>4, <1>5, <1>6

LEMMA SettleOutcome ==
  ASSUME NEW fs \in Seq(Frames), Len(fs) > 0, Clean(fs, Len(fs) - 1),
         NEW e, NEW code \in Codes, Settle(fs, e, code),
         mode' = mode, Strict' => Strict, Strict' => exitOnError'
  PROVE  /\ OnceReturns'
         /\ pc' \in {"next", "return"} /\ ret' \in {"none", "err"}
         /\ code # 0 => exitcode' # 0
         /\ e = "err" /\ Strict' /\ ~fs[Len(fs)].once => exitcode' # 0
<1> DEFINE d == Len(fs)
           leave == Leaves(fs[d], e)
           v == IF e = "err" /\ ~leave THEN "err" ELSE "none"
           abort == ~leave /\ e = "err" /\ Aborts(exitOnError', ignoreError')
<1>1. /\ frames' = [fs EXCEPT ![d].lastError = v]
      /\ exitcode' = IF abort /\ code = 0 THEN 1 ELSE code
      /\ pc' = IF leave \/ abort THEN "return" ELSE "next"
      /\ ret' = IF abort THEN "err" ELSE "none"
  BY DEF Settle
<1>2. \A k \in 1..d : fs[k] \in Frames
  OBVIOUS
<1> HIDE DEF v
<1>3. /\ Depth' = d
      /\ \A k \in 1..d : frames'[k].once = fs[k].once
  BY <1>1, <1>2 DEF Depth, Frames
<1>4. \A k \in 1..d : k # d => k \in 1..(d - 1)
  OBVIOUS
<1>5. Strict' => Aborts(exitOnError', ignoreError')
  BY DEF Strict, Aborts
<1>7. OnceReturns'
  <2> SUFFICES ASSUME mode # "query", NEW k \in 1..d, frames'[k].once
               PROVE  k = d /\ pc' = "return"
    BY <1>3 DEF OnceReturns
  <2>1. fs[k].once
    BY <1>3, Zenon
  <2>2. k = d
    BY <1>4, <2>1, Zenon DEF Clean
  <2>3. QED
    BY <1>1, <2>1, <2>2 DEF Leaves
<1>8. e = "err" /\ Strict' /\ ~fs[d].once => exitcode' # 0
  BY <1>1, <1>5 DEF Leaves
<1>9. QED
  BY <1>1, <1>7, <1>8

(* What a command may leave in the batch was there before, or has not run. *)
LEMMA SentAccounted ==
  ASSUME NEW b, Accounted(b), batch' = b PROVE SentHere'
BY DEF Accounted, SentHere

(* A command that ends with Settle, in a Run told to stop after it or not. *)
LEMMA CompletesOutcome ==
  ASSUME Ready, pc # "return", NEW fs, StackLike(fs), Clean(fs, Len(fs) - 1),
         NEW b, Accounted(b), NEW e, NEW code \in {exitcode, 1},
         e = "err" => code = 1 \/ ~fs[Len(fs)].once \/ Asks,
         Completes(fs, b, e, code)
  PROVE  Outcome'
<1>1. /\ UNCHANGED settings /\ batch' = b /\ Settle(fs, e, code)
      /\ SawError(fs, e) /\ UNCHANGED <<mode, host>>
  BY DEF Completes, Ready
<1>2. (Strict' <=> Strict) /\ (Strict' => exitOnError') /\ (Asks' <=> Asks)
  BY <1>1 DEF settings, Strict, Asks, Ready, Outcome
<1>3. code \in Codes /\ fs \in Seq(Frames) /\ Len(fs) > 0
  BY DEF Ready, EngineInv, EngineOK, Codes, StackLike
<1>4. /\ OnceReturns'
      /\ pc' \in {"next", "return"} /\ ret' \in {"none", "err"}
      /\ code # 0 => exitcode' # 0
      /\ e = "err" /\ Strict' /\ ~fs[Len(fs)].once => exitcode' # 0
  BY <1>1, <1>2, <1>3, SettleOutcome
<1>5. ErrorLevel'
  <2>1. seen'.err => seen.err \/ e = "err"
    BY <1>1, SawFacts
  <2>2. seen.err /\ Strict /\ ~Asks => code # 0
    BY DEF Ready, Outcome, ErrorLevel
  <2>3. QED
    BY <1>2, <1>4, <2>1, <2>2 DEF ErrorLevel
<1>6. SentHere'
  BY <1>1, SentAccounted
<1>7. EndsPassed'
  <2>1. seen.ends = {}
    BY NoneToEnd DEF Ready
  <2>2. seen'.ends \subseteq EndedBy(fs, e)
    BY <1>1, <2>1, SawFacts
  <2>3. UNCHANGED <<exitOnError, ignoreError>>
    BY <1>1 DEF settings
  <2>4. QED
    BY <1>1, <1>3, <2>2, <2>3, SettleEnds
<1>8. QED
  BY <1>2, <1>4, <1>5, <1>6, <1>7 DEF Outcome

(* A query is sent: nothing is known yet.                                  *)
LEMMA SendOutcome ==
  ASSUME Ready, pc # "return", NEW fs, StackLike(fs), Clean(fs, Len(fs) - 1),
         NEW b, Accounted(b), NEW by, NEW left, NEW write, NEW skew,
         Send(fs, b, by, left, write, skew)
  PROVE  Outcome'
<1> DEFINE d == Len(fs)
<1>1. /\ frames' = [fs EXCEPT ![d].lastError = "none"]
      /\ pc' = "query" /\ batch' = b
      /\ UNCHANGED <<settings, exitcode, ret, seen, mode, host>>
  BY DEF Send, Ready
<1>2. fs \in Seq(Frames) /\ d > 0 /\ \A k \in 1..d : fs[k] \in Frames
  BY DEF StackLike
<1>3. Depth' = d /\ \A k \in 1..d : frames'[k].once = fs[k].once
  BY <1>1, <1>2 DEF Depth, Frames
<1>4. \A k \in 1..d : k # d => k \in 1..(d - 1)
  BY <1>2
<1>5. (Strict' <=> Strict) /\ (Strict' => exitOnError') /\ (Asks' <=> Asks)
  BY <1>1 DEF settings, Strict, Asks, Ready, Outcome
<1>6. OnceReturns'
  <2> SUFFICES ASSUME mode # "query", NEW k \in 1..d, frames'[k].once
               PROVE  k = d
    BY <1>1, <1>3, Zenon DEF OnceReturns
  <2>1. fs[k].once
    BY <1>3, Zenon
  <2>2. QED
    BY <1>4, <2>1, Zenon DEF Clean
<1>7. ErrorLevel' /\ SentHere'
  BY <1>1, <1>5, SentAccounted DEF ErrorLevel, Ready, Outcome
<1>8. EndsPassed'
  BY <1>1, NoneToEnd, NoEnds DEF Ready
<1>9. QED
  BY <1>1, <1>5, <1>6, <1>7, <1>8 DEF Outcome

(* A file is included by a Run that goes on.                               *)
LEMMA IncludeOutcome ==
  ASSUME Outcome, pc # "return", mode' = mode,
         NEW fs \in Seq(Frames), Clean(fs, Len(fs)),
         NEW b, Accounted(b), NEW kind, NEW all, IncludeFile(fs, b, kind, all)
  PROVE  Outcome'
<1> DEFINE fr == [once |-> FALSE, processAll |-> all, lastError |-> "none",
                  kind |-> kind, curLine |-> reader, wasEcho |-> echo]
           d == Len(fs)
<1>1. /\ frames' = Append(fs, fr) /\ batch' = b /\ pc' = "next"
      /\ UNCHANGED <<settings, exitcode, call, ret, seen, mode>>
  BY DEF IncludeFile
<1>2. fr.once = FALSE
  OBVIOUS
<1> HIDE DEF fr
<1>3. /\ Depth' = d + 1 /\ frames'[d + 1] = fr
      /\ \A k \in 1..d : frames'[k] = fs[k]
  BY <1>1 DEF Depth
<1>4. \A k \in 1..(d + 1) : k \in 1..d \/ k = d + 1
  OBVIOUS
<1>5. (Strict' <=> Strict) /\ (Strict' => exitOnError') /\ (Asks' <=> Asks)
  BY <1>1 DEF settings, Strict, Asks, Outcome
<1>6. OnceReturns'
  <2> SUFFICES ASSUME mode # "query", NEW k \in 1..(d + 1)
               PROVE  ~frames'[k].once
    BY <1>1, <1>3, Zenon DEF OnceReturns
  <2>1. CASE k \in 1..d
    BY <1>3, <2>1, Zenon DEF Clean
  <2>2. CASE k = d + 1
    BY <1>2, <1>3, <2>2, Zenon
  <2>3. QED
    BY <1>4, <2>1, <2>2, Zenon
<1>7. ErrorLevel' /\ SentHere'
  BY <1>1, <1>5, SentAccounted DEF ErrorLevel, Outcome
<1>8. EndsPassed'
  BY <1>1, NoneToEnd, NoEnds
<1>9. QED
  BY <1>1, <1>5, <1>6, <1>7, <1>8 DEF Outcome

LEMMA ResetAccounted == Accounted(ResetBatch)
BY DEF Accounted, ResetBatch

LEMMA AppendSent ==
  ASSUME NEW b \in Batches, NEW l PROVE AppendLine(b, l).sent = b.sent
BY DEF AppendLine, Batches

LEMMA LineAccounted ==
  ASSUME NEW l PROVE Accounted(AppendLine(ResetBatch, l))
<1>1. ResetBatch \in Batches /\ ResetBatch.sent = "no"
  BY DEF ResetBatch, Batches
<1>2. QED
  BY <1>1, AppendSent DEF Accounted

(* The Run that reads, and those that called it, were not told to stop.    *)
LEMMA ReadsClean ==
  ASSUME Ready, pc \in {"first", "next"}
  PROVE  /\ StackLike(frames) /\ Clean(frames, Len(frames)) /\ Accounted(batch)
         /\ Len(frames) > 0 /\ frames \in Seq(Frames) /\ pc # "return"
         /\ seen.ends = {}
<1>1. StackLike(frames) /\ Len(frames) > 0 /\ frames \in Seq(Frames)
  BY StackLikeFrames DEF Ready, StackLike
<1>2. Clean(frames, Len(frames))
  BY Zenon DEF Clean, Ready, Outcome, OnceReturns, Depth
<1>3. Accounted(batch)
  BY DEF Accounted, Ready, Outcome, SentHere
<1>4. QED
  BY <1>1, <1>2, <1>3, NoneToEnd DEF Ready

LEMMA CleanBelow ==
  ASSUME NEW fs \in Seq(Frames), Len(fs) > 0, Clean(fs, Len(fs))
  PROVE  /\ Clean(fs, Len(fs) - 1)
         /\ ~fs[Len(fs)].once \/ mode = "query"
<1>1. \A k \in 1..(Len(fs) - 1) : k \in 1..Len(fs)
  OBVIOUS
<1>2. Len(fs) \in 1..Len(fs)
  OBVIOUS
<1>3. QED
  BY <1>1, <1>2, Zenon DEF Clean

LEMMA GoOutcome ==
  ASSUME Ready, pc # "return", NEW fs, StackLike(fs), Clean(fs, Len(fs) - 1),
         NEW b, Accounted(b), NEW n, GoCommand(fs, b, n)
  PROVE  Outcome'
<1>1. CASE Completes(fs, b, "none", exitcode)
  BY <1>1, CompletesOutcome
<1>2. CASE Completes(fs, ResetBatch, "err", 1)
  BY <1>2, ResetAccounted, CompletesOutcome
<1>3. CASE Completes(fs, ResetBatch, "none", exitcode)
  BY <1>3, ResetAccounted, CompletesOutcome
<1>4. CASE Send(fs, b, "go", n, b.write, b.skew)
  BY <1>4, SendOutcome
<1>5. QED
  BY <1>1, <1>2, <1>3, <1>4 DEF GoCommand

LEMMA ExitOutcome ==
  ASSUME Ready, pc # "return", NEW fs, StackLike(fs), Clean(fs, Len(fs)),
         NEW b, Accounted(b), ExitCommand(fs, b)
  PROVE  Outcome'
<1>1. Clean(fs, Len(fs) - 1) /\ (~fs[Len(fs)].once \/ Asks)
  BY CleanBelow DEF StackLike, Asks
<1>2. CASE Completes(fs, b, "exit", exitcode)
  BY <1>1, <1>2, CompletesOutcome
<1>3. CASE ExitParens(fs, b)
  <2>1. CASE Send(fs, b, "exit", 1, b.write, b.skew)
    BY <1>1, <2>1, SendOutcome
  <2>2. QED
    BY <1>2, <1>3, <2>1 DEF ExitParens
<1>4. CASE \E l \in TextLines(ResetBatch) : ~l.blank /\ ExitQuery(fs, b, l)
  <2>1. PICK l \in TextLines(ResetBatch) : ExitQuery(fs, b, l)
    BY <1>4
  <2> DEFINE b2 == AppendLine(ResetBatch, l)
             w == b.write \/ l.write
  <2>2. Accounted(b2)
    BY LineAccounted
  <2>3. \/ Completes(fs, b2, "exit", exitcode)
        \/ Send(fs, b2, "exit", 1, w, b.skew)
    BY <2>1, Zenon DEF ExitQuery
  <2> HIDE DEF b2, w
  <2>4. CASE Completes(fs, b2, "exit", exitcode)
    BY <1>1, <2>2, <2>4, CompletesOutcome
  <2>5. CASE Send(fs, b2, "exit", 1, w, b.skew)
    BY <1>1, <2>2, <2>5, SendOutcome
  <2>6. QED
    BY <2>3, <2>4, <2>5
<1>5. CASE Completes(fs, ResetBatch, "err", exitcode)
  BY <1>1, <1>5, ResetAccounted, CompletesOutcome
<1>6. QED
  BY <1>2, <1>3, <1>4, <1>5 DEF ExitCommand

LEMMA PlainOutcome ==
  ASSUME Ready, pc # "return", NEW fs, StackLike(fs), Clean(fs, Len(fs)),
         NEW b \in GoodBatches, Accounted(b), PlainCommand(fs, b)
  PROVE  Outcome'
<1>1. Clean(fs, Len(fs) - 1) /\ (~fs[Len(fs)].once \/ Asks)
  BY CleanBelow DEF StackLike, Asks
<1> DEFINE c == [b EXCEPT !.lineOne = TRUE]
<1>2. Accounted(c)
  BY DEF Accounted, GoodBatches, Batches
<1> HIDE DEF c
<1>3. CASE Completes(fs, b, "none", exitcode)
  BY <1>1, <1>3, CompletesOutcome
<1>4. CASE Completes(fs, ResetBatch, "none", exitcode)
  BY <1>1, <1>4, ResetAccounted, CompletesOutcome
<1>5. CASE Completes(fs, c, "none", exitcode)
  BY <1>1, <1>2, <1>5, CompletesOutcome
<1>6. CASE Completes(fs, b, "err", exitcode)
  BY <1>1, <1>6, CompletesOutcome
<1>7. CASE Completes(fs, b, "exit", 1)
  BY <1>1, <1>7, CompletesOutcome
<1>8. QED
  BY <1>3, <1>4, <1>5, <1>6, <1>7 DEF PlainCommand, c

LEMMA OnErrorOutcome ==
  ASSUME Ready, pc # "return", NEW fs, StackLike(fs), Clean(fs, Len(fs)),
         NEW b, Accounted(b), NEW arg \in {"exit", "ignore"},
         OnErrorCommand(fs, b, arg)
  PROVE  Outcome'
<1>1. /\ exitOnError' = (arg = "exit")
      /\ ignoreError' = (ignoreError \/ arg = "ignore")
      /\ batch' = b /\ Settle(fs, "none", exitcode)
      /\ UNCHANGED <<opt, seen, mode, host>>
  BY DEF OnErrorCommand, Ready
<1>2. (Strict' => Strict) /\ (Strict' => exitOnError') /\ (Asks' <=> Asks)
  BY <1>1 DEF Strict, Asks
<1>3. exitcode \in Codes /\ fs \in Seq(Frames) /\ Len(fs) > 0
  BY DEF Ready, EngineInv, EngineOK, StackLike
<1>4. /\ OnceReturns'
      /\ pc' \in {"next", "return"} /\ ret' \in {"none", "err"}
      /\ exitcode # 0 => exitcode' # 0
  <2>1. Clean(fs, Len(fs) - 1)
    BY <1>3, CleanBelow
  <2>2. QED
    BY <1>1, <1>2, <1>3, <2>1, SettleOutcome
<1>5. ErrorLevel'
  BY <1>1, <1>2, <1>4 DEF ErrorLevel, Ready, Outcome
<1>6. SentHere'
  BY <1>1, SentAccounted
<1>7. EndsPassed'
  BY <1>1, NoneToEnd, NoEnds DEF Ready
<1>8. QED
  BY <1>2, <1>4, <1>5, <1>6, <1>7 DEF Outcome

LEMMA CommandOutcome ==
  ASSUME Ready, pc \in {"first", "next"}, NEW b \in GoodBatches, Accounted(b),
         Command(frames, b)
  PROVE  Outcome'
<1>1. /\ StackLike(frames) /\ Clean(frames, Len(frames))
      /\ Len(frames) > 0 /\ frames \in Seq(Frames) /\ pc # "return"
      /\ Outcome /\ mode' = mode
  BY ReadsClean DEF Ready
<1>2. CASE \E n \in 1..MaxGo : GoCommand(frames, b, n)
  BY <1>1, <1>2, CleanBelow, GoOutcome
<1>3. CASE ExitCommand(frames, b)
  BY <1>1, <1>3, ExitOutcome
<1>4. CASE PlainCommand(frames, b)
  BY <1>1, <1>4, PlainOutcome
<1>5. CASE \E arg \in {"exit", "ignore"} : OnErrorCommand(frames, b, arg)
  BY <1>1, <1>5, OnErrorOutcome
<1>6. CASE ReadFileCommand(frames, b)
  BY <1>1, <1>6, IncludeOutcome DEF ReadFileCommand
<1>7. CASE EditCommand(frames, b)
  BY <1>1, <1>7, ResetAccounted, IncludeOutcome DEF EditCommand
<1>8. QED
  BY <1>2, <1>3, <1>4, <1>5, <1>6, <1>7 DEF Command

LEMMA NextFailsOutcome ==
  ASSUME Ready, pc = "next", NEW b, Accounted(b), NextFails(b)
  PROVE  Outcome'
<1>1. Clean(frames, Len(frames)) /\ seen.ends = {}
  BY ReadsClean
<1>2. /\ exitcode' = IF Aborts(exitOnError, ignoreError) /\ exitcode = 0
                     THEN 1 ELSE exitcode
      /\ pc' = IF Aborts(exitOnError, ignoreError) THEN "return" ELSE "next"
      /\ ret' = IF Aborts(exitOnError, ignoreError) THEN "err" ELSE ret
      /\ batch' = b /\ SawError(frames, "err")
      /\ UNCHANGED <<settings, frames, mode, host>>
  BY DEF NextFails, Ready
<1>3. (Strict' <=> Strict) /\ (Strict' => exitOnError') /\ (Asks' <=> Asks)
  BY <1>2 DEF settings, Strict, Asks, Ready, Outcome
<1>4. Strict => Aborts(exitOnError, ignoreError)
  BY DEF Strict, Aborts, Ready, Outcome
<1>5. Depth' = Len(frames)
  BY <1>2 DEF Depth
<1>6. OnceReturns'
  BY <1>1, <1>2, <1>3, <1>5, Zenon DEF Clean, OnceReturns
<1>7. ErrorLevel' /\ SentHere'
  BY <1>2, <1>3, <1>4, SentAccounted DEF ErrorLevel
<1>8. EndsPassed'
  <2>1. seen'.ends = EndedBy(frames, "err")
    BY <1>1, <1>2, SawFacts
  <2>2. CASE exitOnError /\ ~ignoreError
    <3>1. pc' = "return" /\ ret' = "err" /\ exitOnError' /\ ~ignoreError'
      BY <1>2, <2>2 DEF Aborts, settings
    <3>2. \A k \in seen'.ends : \A j \in (k + 1)..Len(frames) :
             frames[j].kind # "edit" /\ ~frames[j].once
      BY <2>1, <2>2 DEF EndedBy
    <3>3. frames' = frames
      BY <1>2
    <3>4. QED
      BY <1>5, <3>1, <3>2, <3>3 DEF EndsPassed
  <2>3. CASE ~(exitOnError /\ ~ignoreError)
    BY <2>1, <2>3, NoEnds DEF EndedBy
  <2>4. QED
    BY <2>2, <2>3
<1>9. QED
  BY <1>2, <1>3, <1>6, <1>7, <1>8 DEF Outcome

LEMMA ReadTextOutcome ==
  ASSUME Ready, ReadText PROVE Outcome'
<1>1. PICK l \in TextLines(batch) : batch' = AppendLine(batch, l)
  BY DEF ReadText
<1>2. batch'.sent = batch.sent
  BY <1>1, AppendSent DEF Ready, EngineInv, EngineOK, GoodBatches
<1>3. /\ pc = "next"
      /\ UNCHANGED <<settings, frames, exitcode, pc, call, ret, seen, mode, host>>
  BY DEF ReadText, Ready
<1>4. (Strict' <=> Strict) /\ (Strict' => exitOnError') /\ (Asks' <=> Asks)
  BY <1>3 DEF settings, Strict, Asks, Ready, Outcome
<1>5. OnceReturns'
  BY <1>3, <1>4 DEF Ready, Outcome, OnceReturns, Depth
<1>6. ErrorLevel' /\ SentHere'
  BY <1>2, <1>3, <1>4 DEF Ready, Outcome, ErrorLevel, SentHere
<1>7. EndsPassed'
  BY <1>3, NoneToEnd, NoEnds DEF Ready
<1>8. QED
  BY <1>3, <1>4, <1>5, <1>6, <1>7 DEF Outcome

LEMMA ReadEofOutcome ==
  ASSUME Ready, ReadEof PROVE Outcome'
<1>1. /\ pc = "next" /\ StackLike(frames) /\ Clean(frames, Len(frames))
      /\ Accounted(batch) /\ Len(frames) > 0 /\ frames \in Seq(Frames)
      /\ seen.ends = {}
  BY ReadsClean DEF ReadEof
<1>2. CASE /\ pc' = "return"
           /\ UNCHANGED <<settings, nesting, frames, batch, exitcode, call, seen>>
  <2>1. UNCHANGED <<settings, frames, batch, exitcode, seen, mode, host>>
    BY <1>2 DEF Ready
  <2>2. (Strict' <=> Strict) /\ (Strict' => exitOnError') /\ (Asks' <=> Asks)
    BY <2>1 DEF settings, Strict, Asks, Ready, Outcome
  <2>3. Depth' = Len(frames)
    BY <2>1 DEF Depth
  <2>4. OnceReturns'
    BY <1>1, <2>1, <2>2, <2>3, Zenon DEF Clean, OnceReturns
  <2>5. ErrorLevel'
    BY <2>1, <2>2 DEF Ready, Outcome, ErrorLevel
  <2>6. SentHere'
    BY <1>1, <2>1, Zenon DEF Accounted, SentHere
  <2>7. EndsPassed'
    BY <1>1, <2>1, NoEnds
  <2>8. QED
    BY <1>2, <2>2, <2>4, <2>5, <2>6, <2>7 DEF Outcome
<1>3. CASE GoCommand([frames EXCEPT ![Depth].once = TRUE], batch, 1)
  <2> DEFINE g == [frames EXCEPT ![Depth].once = TRUE]
  <2>1. g = [frames EXCEPT ![Len(frames)].once = TRUE]
    BY DEF Depth
  <2>2. GoCommand(g, batch, 1)
    BY <1>3
  <2> HIDE DEF g
  <2>3. g \in Seq(Frames) /\ SameShape(frames, g)
    BY <1>1, <2>1, SetOnce
  <2>4. StackLike(g) /\ Len(g) = Len(frames)
    BY <1>1, <2>3 DEF StackLike, SameShape
  <2>5. Clean(g, Len(g) - 1)
    <3>1. \A k \in 1..(Len(g) - 1) : k \in 1..Len(frames) /\ g[k] = frames[k]
      BY <1>1, <2>1, <2>4
    <3>2. QED
      BY <1>1, <3>1, Zenon DEF Clean
  <2>6. QED
    BY <1>1, <2>2, <2>4, <2>5, GoOutcome
<1>4. QED
  BY <1>2, <1>3 DEF ReadEof

LEMMA CtrlCOutcome ==
  ASSUME Ready, CtrlC PROVE Outcome'
<1>1. /\ pc = "next" /\ Clean(frames, Len(frames)) /\ Accounted(batch)
      /\ Len(frames) > 0 /\ frames \in Seq(Frames)
  BY ReadsClean DEF CtrlC
<1>2. /\ exitcode' = 0 /\ pc' = "return" /\ SawForced({Depth})
      /\ UNCHANGED <<settings, frames, batch, mode, host>>
  BY DEF CtrlC, Ready
<1>3. (Strict' <=> Strict) /\ (Strict' => exitOnError') /\ (Asks' <=> Asks)
  BY <1>2 DEF settings, Strict, Asks, Ready, Outcome
<1>4. Depth = Len(frames) /\ Depth' = Len(frames)
  BY <1>2 DEF Depth
<1>5. OnceReturns'
  BY <1>1, <1>2, <1>3, <1>4, Zenon DEF Clean, OnceReturns
<1>6. ErrorLevel' /\ SentHere'
  BY <1>1, <1>2, SentAccounted DEF SawForced, ErrorLevel
<1>7. EndsPassed'
  BY <1>2, <1>4 DEF SawForced, EndsPassed
<1>8. QED
  BY <1>2, <1>3, <1>5, <1>6, <1>7 DEF Outcome

(* The error of a malformed -q or -Q is lost; the others' levels are kept. *)
LEMMA MalformedOutcome ==
  ASSUME Ready, RunQueryMalformed PROVE Outcome'
<1>1. /\ pc = "first" /\ batch' = ResetBatch /\ Settle(frames, "none", exitcode)
      /\ SawLost /\ UNCHANGED settings /\ mode' = mode /\ host' = host
  BY Zenon DEF RunQueryMalformed, Ready
<1>2. /\ StackLike(frames) /\ Clean(frames, Len(frames))
      /\ Len(frames) > 0 /\ frames \in Seq(Frames) /\ seen.ends = {}
  BY <1>1, ReadsClean
<1>3. /\ (Strict' <=> Strict) /\ (Strict' => exitOnError') /\ Asks'
  BY <1>1 DEF settings, Strict, Asks, Ready, Outcome
<1>4. exitcode \in Codes /\ Clean(frames, Len(frames) - 1)
  BY <1>2, CleanBelow DEF Ready, EngineInv, EngineOK
<1>5. /\ OnceReturns'
      /\ pc' \in {"next", "return"} /\ ret' \in {"none", "err"}
  BY <1>1, <1>2, <1>3, <1>4, SettleOutcome
<1>6. SentHere'
  BY <1>1, ResetAccounted, SentAccounted, Zenon
<1>7. EndsPassed'
  BY <1>1, <1>2, NoEnds DEF SawLost, Ready, EngineInv, EngineOK, Seen
<1>8. QED
  BY <1>3, <1>5, <1>6, <1>7 DEF Outcome, ErrorLevel

LEMMA QueryReturnsOutcome ==
  ASSUME Ready, QueryReturns PROVE Outcome'
<1>1. /\ pc = "query" /\ StackLike(frames) /\ Len(frames) > 0
      /\ frames \in Seq(Frames) /\ UNCHANGED <<settings, mode, host>>
  BY StackLikeFrames DEF QueryReturns, Ready, StackLike
<1>2. /\ call.by \in {"go", "exit"} /\ exitOnError \in BOOLEAN
      /\ opt.level \in 0..255 /\ exitcode \in Codes
      /\ batch \in Batches
  BY DEF Ready, EngineInv, EngineOK, Calls, Options, GoodBatches
<1>3. PICK o \in QueryOutcomes(exitOnError, opt.level, exitcode) :
         \/ /\ call.by = "go" /\ o.err = "none" /\ call.left > 1
            /\ call' = [call EXCEPT !.left = @ - 1]
            /\ batch' = RanOnce(batch)
            /\ exitcode' = GoKeeps(o)
            /\ UNCHANGED <<frames, pc, ret, seen>>
         \/ /\ call.by = "go" /\ o.err = "none" /\ call.left = 1
            /\ batch' = GoDone(batch)
            /\ call' = NoCall
            /\ Settle(frames, "none", GoKeeps(o))
            /\ UNCHANGED seen
         \/ /\ call.by = "go" /\ o.err # "none"
            /\ batch' = LeftOver(batch, o)
            /\ call' = NoCall
            /\ Settle(frames, o.err, GoFails(o))
            /\ seen' = [err |-> TRUE, ends |-> EndedBy(frames, o.err)]
         \/ /\ call.by = "exit"
            /\ batch' = LeftOver(batch, o)
            /\ call' = NoCall
            /\ Settle(frames, "exit", o.code)
            /\ SawForced({Depth})
  BY Zenon DEF QueryReturns
<1>4. /\ o.exit \in Codes /\ o.code \in Codes
      /\ o.exit = 0 => exitcode = 0
      /\ o.err # "none" => o.code # 0
  BY <1>2, OutcomeFacts
<1>5. /\ (Strict' <=> Strict) /\ (Strict' => exitOnError') /\ (Asks' <=> Asks)
      /\ UNCHANGED <<exitOnError, ignoreError>> /\ seen.ends = {}
  BY <1>1, NoneToEnd DEF settings, Strict, Asks, Ready, Outcome
<1>6. Clean(frames, Len(frames) - 1)
  <2>1. \A k \in 1..(Len(frames) - 1) : k \in 1..Len(frames) /\ k # Len(frames)
    BY <1>1
  <2>2. QED
    BY <1>1, <2>1, Zenon DEF Clean, Ready, Outcome, OnceReturns, Depth
<1>7. CASE /\ call.by = "go" /\ call' = [call EXCEPT !.left = @ - 1]
           /\ exitcode' = GoKeeps(o) /\ UNCHANGED <<frames, pc, ret, seen>>
  <2>1. call'.by = "go"
    BY <1>7 DEF Ready, EngineInv, EngineOK, Calls
  <2>2. OnceReturns'
    BY <1>1, <1>5, <1>7 DEF Ready, Outcome, OnceReturns, Depth
  <2>3. ErrorLevel'
    BY <1>4, <1>5, <1>7 DEF Ready, Outcome, ErrorLevel, GoKeeps
  <2>4. SentHere'
    BY <1>1, <1>7, <2>1 DEF SentHere
  <2>5. EndsPassed'
    BY <1>5, <1>7, NoEnds
  <2>6. QED
    BY <1>1, <1>5, <1>7, <2>2, <2>3, <2>4, <2>5 DEF Outcome
<1>8. CASE /\ batch' = GoDone(batch) /\ Settle(frames, "none", GoKeeps(o))
           /\ UNCHANGED seen
  <2>1. Settle(frames, "none", o.exit)
    BY <1>8 DEF GoKeeps
  <2>2. /\ OnceReturns'
        /\ pc' \in {"next", "return"} /\ ret' \in {"none", "err"}
        /\ o.exit # 0 => exitcode' # 0
    BY <1>1, <1>4, <1>5, <1>6, <2>1, SettleOutcome
  <2>3. ErrorLevel'
    BY <1>4, <1>5, <1>8, <2>2 DEF Ready, Outcome, ErrorLevel
  <2>4. SentHere'
    BY <1>8, ResetAccounted, SentAccounted DEF GoDone
  <2>5. EndsPassed'
    BY <1>5, <1>8, NoEnds
  <2>6. QED
    BY <1>1, <1>5, <2>2, <2>3, <2>4, <2>5 DEF Outcome
<1>9. Accounted(LeftOver(batch, o))
  BY <1>2 DEF Accounted, LeftOver, Batches
<1>10. CASE /\ o.err # "none" /\ batch' = LeftOver(batch, o)
            /\ Settle(frames, o.err, GoFails(o))
            /\ seen' = [err |-> TRUE, ends |-> EndedBy(frames, o.err)]
  <2>1. Settle(frames, o.err, o.code) /\ seen'.ends = EndedBy(frames, o.err)
    BY <1>10 DEF GoFails
  <2>2. /\ OnceReturns'
        /\ pc' \in {"next", "return"} /\ ret' \in {"none", "err"}
        /\ exitcode' # 0
    BY <1>1, <1>4, <1>5, <1>6, <1>10, <2>1, SettleOutcome
  <2>3. SentHere'
    BY <1>9, <1>10, SentAccounted
  <2>4. EndsPassed'
    BY <1>1, <1>5, <2>1, SettleEnds
  <2>5. QED
    BY <1>1, <1>5, <2>2, <2>3, <2>4 DEF Outcome, ErrorLevel
<1>11. CASE /\ batch' = LeftOver(batch, o) /\ Settle(frames, "exit", o.code)
            /\ SawForced({Depth})
  <2>1. /\ OnceReturns'
        /\ pc' \in {"next", "return"} /\ ret' \in {"none", "err"}
    BY <1>1, <1>4, <1>5, <1>6, <1>11, SettleOutcome
  <2>2. ~seen'.err /\ seen'.ends = EndedBy(frames, "exit")
    BY <1>11 DEF SawForced, EndedBy, Depth
  <2>3. SentHere'
    BY <1>9, <1>11, SentAccounted
  <2>4. EndsPassed'
    BY <1>1, <1>5, <1>11, <2>2, SettleEnds
  <2>5. QED
    BY <1>1, <1>5, <2>1, <2>2, <2>3, <2>4 DEF Outcome, ErrorLevel
<1>12. QED
  BY <1>3, <1>7, <1>8, <1>10, <1>11, Zenon

LEMMA PopFacts ==
  ASSUME NEW f \in Seq(Frames), Len(f) > 1,
         NEW g, g = SubSeq(f, 1, Len(f) - 1)
  PROVE  /\ g \in Seq(Frames) /\ Len(g) = Len(f) - 1 /\ Len(g) > 0
         /\ \A k \in 1..(Len(f) - 1) : g[k] = f[k]
<1>1. g \in Seq(Frames) /\ Len(g) = Len(f) - 1
  OBVIOUS
<1>2. \A k \in 1..Len(g) : g[k] = f[k]
  BY <1>1
<1>3. QED
  BY <1>1, <1>2

LEMMA RunReturnsOutcome ==
  ASSUME Ready, RunReturns PROVE Outcome'
<1>1. /\ pc = "return" /\ StackLike(frames) /\ Len(frames) > 0
      /\ frames \in Seq(Frames) /\ UNCHANGED <<settings, mode, host>>
  BY StackLikeFrames DEF RunReturns, Ready, StackLike
<1>2. /\ (Strict' <=> Strict) /\ (Strict' => exitOnError') /\ (Asks' <=> Asks)
      /\ UNCHANGED <<exitOnError, ignoreError>>
  BY <1>1 DEF settings, Strict, Asks, Ready, Outcome
<1>3. SentHere'
  <2>1. batch \in Batches /\ Accounted(batch)
    BY <1>1 DEF Ready, EngineInv, EngineOK, GoodBatches, Outcome, SentHere, Accounted
  <2>2. Accounted(AfterInclude(batch))
    BY <2>1 DEF AfterInclude, Batches, Accounted
  <2>3. QED
    BY <2>1, <2>2 DEF RunReturns, Accounted, SentHere
<1>4. \A k \in 1..(Depth - 1) : k \in 1..Depth /\ k # Depth
  BY <1>1 DEF Depth
<1>5. CASE Depth = 1
  <2>1. /\ frames' = <<>> /\ pc' = "idle" /\ UNCHANGED <<exitcode, ret>>
        /\ seen'.ends = {} /\ seen'.err = seen.err
    BY <1>5 DEF RunReturns, Ready, EngineInv, EngineOK, Seen
  <2>2. Depth' = 0
    BY <2>1 DEF Depth
  <2>3. OnceReturns'
    <3>1. 1..0 = {}
      OBVIOUS
    <3>2. QED
      BY <2>2, <3>1 DEF OnceReturns
  <2>4. ErrorLevel'
    BY <1>2, <2>1 DEF Ready, Outcome, ErrorLevel
  <2>5. EndsPassed'
    BY <2>1, NoEnds
  <2>6. QED
    BY <1>2, <1>3, <2>1, <2>3, <2>4, <2>5 DEF Outcome
<1>6. CASE Depth # 1
  <2> DEFINE fs == SubSeq(frames, 1, Depth - 1)
             e == IF Top.kind = "edit" THEN "none" ELSE ret
  <2>1. Settle(fs, e, exitcode) /\ SawError(fs, e)
    BY <1>6 DEF RunReturns
  <2>2. /\ fs \in Seq(Frames) /\ Len(fs) = Depth - 1 /\ Len(fs) > 0
        /\ \A k \in 1..(Depth - 1) : fs[k] = frames[k]
    <3>1. Depth = Len(frames)
      BY DEF Depth
    <3>2. Len(frames) # 1 /\ Len(frames) > 0 /\ Len(frames) \in Nat
      BY <1>1, <1>6, <3>1
    <3>3. Len(frames) > 1
      <4>1. \A n \in Nat : n > 0 /\ n # 1 => n > 1
        OBVIOUS
      <4>2. QED
        BY <3>2, <4>1, Zenon
    <3>4. QED
      BY <1>1, <3>1, <3>3, PopFacts
  <2>3. (seen.ends \cap (1..Len(fs))) \subseteq EndedBy(fs, e)
    <3> SUFFICES ASSUME NEW k \in seen.ends, k \in 1..Len(fs)
                 PROVE  k \in EndedBy(fs, e)
      OBVIOUS
    <3>1. k < Depth /\ Depth \in (k + 1)..Depth
      BY <1>1, <2>2 DEF Depth
    <3>2. /\ ret = "err" /\ exitOnError /\ ~ignoreError
          /\ \A j \in (k + 1)..Depth : frames[j].kind # "edit" /\ ~frames[j].once
      BY <3>1 DEF Ready, Outcome, EndsPassed
    <3>3. e = "err"
      BY <3>1, <3>2 DEF Top
    <3> HIDE DEF fs, e
    <3>4. \A j \in (k + 1)..Len(fs) : fs[j].kind # "edit" /\ ~fs[j].once
      <4>1. \A j \in (k + 1)..Len(fs) : j \in 1..(Depth - 1) /\ j \in (k + 1)..Depth
        BY <1>1, <2>2 DEF Depth
      <4>2. QED
        BY <2>2, <3>2, <4>1
    <3>5. QED
      BY <3>2, <3>3, <3>4 DEF EndedBy
  <2> HIDE DEF fs, e
  <2>4. Clean(fs, Len(fs))
    BY <1>4, <2>2, Zenon DEF Clean, Ready, Outcome, OnceReturns
  <2>5. Clean(fs, Len(fs) - 1) /\ (~fs[Len(fs)].once \/ Asks) /\ exitcode \in Codes
    BY <2>2, <2>4, CleanBelow DEF Asks, Ready, EngineInv, EngineOK
  <2>6. /\ OnceReturns'
        /\ pc' \in {"next", "return"} /\ ret' \in {"none", "err"}
        /\ exitcode # 0 => exitcode' # 0
        /\ e = "err" /\ Strict' /\ ~fs[Len(fs)].once => exitcode' # 0
    BY <1>1, <1>2, <2>1, <2>2, <2>5, SettleOutcome
  <2>7. ErrorLevel'
    <3>1. seen'.err => seen.err \/ e = "err"
      BY <2>1, SawFacts
    <3>2. QED
      BY <1>2, <2>5, <2>6, <3>1 DEF Ready, Outcome, ErrorLevel
  <2>8. EndsPassed'
    <3>1. seen'.ends \subseteq EndedBy(fs, e)
      BY <2>1, <2>3, SawFacts
    <3>2. QED
      BY <1>2, <2>1, <2>2, <3>1, SettleEnds
  <2>9. QED
    BY <1>2, <1>3, <2>6, <2>7, <2>8 DEF Outcome
<1>7. QED
  BY <1>5, <1>6

LEMMA EngineOutcome ==
  ASSUME Ready, EngineNext PROVE Outcome'
<1>1. CASE ReadText
  BY <1>1, ReadTextOutcome
<1>2. CASE ReadMalformed
  BY <1>2, ResetAccounted, NextFailsOutcome DEF ReadMalformed
<1>3. CASE ReadFault
  BY <1>3, ReadsClean, NextFailsOutcome DEF ReadFault
<1>4. CASE CtrlC
  BY <1>4, CtrlCOutcome
<1>5. CASE ReadEof
  BY <1>5, ReadEofOutcome
<1>6. CASE ReadCommand
  <2>1. batch \in GoodBatches
    BY DEF Ready, EngineInv, EngineOK
  <2>2. QED
    BY <1>6, <2>1, ReadsClean, CommandOutcome DEF ReadCommand
<1>7. CASE RunQueryText
  <2>1. PICK l \in TextLines(ResetBatch) :
          GoCommand(frames, AppendLine(ResetBatch, l), 1)
    BY <1>7 DEF RunQueryText
  <2>2. StackLike(frames) /\ Clean(frames, Len(frames) - 1) /\ pc # "return"
    BY <1>7, ReadsClean, CleanBelow DEF RunQueryText
  <2>3. QED
    BY <2>1, <2>2, LineAccounted, GoOutcome
<1>8. CASE RunQueryMalformed
  BY <1>8, MalformedOutcome
<1>9. CASE RunQueryCommand
  <2>1. PICK rest \in BOOLEAN : Command(frames, [ResetBatch EXCEPT !.raw = rest])
    BY <1>9 DEF RunQueryCommand
  <2> DEFINE b == [ResetBatch EXCEPT !.raw = rest]
  <2>2. b \in GoodBatches /\ Accounted(b)
    BY DEF ResetBatch, GoodBatches, Batches, Accounted
  <2>3. Command(frames, b)
    BY <2>1
  <2> HIDE DEF b
  <2>4. QED
    BY <1>9, <2>2, <2>3, CommandOutcome DEF RunQueryCommand
<1>10. CASE QueryReturns
  BY <1>10, QueryReturnsOutcome
<1>11. CASE RunReturns
  BY <1>11, RunReturnsOutcome
<1>12. QED
  BY <1>1, <1>2, <1>3, <1>4, <1>5, <1>6, <1>7, <1>8, <1>9, <1>10, <1>11
  DEF EngineNext

-----------------------------------------------------------------------------
LEMMA StartRunOutcome ==
  ASSUME Outcome, mode' = mode, StartRun(mode = "query", ProcessAll, Asks)
  PROVE  Outcome'
<1> DEFINE fr == [once |-> (mode = "query"), processAll |-> ProcessAll,
                  lastError |-> "none", kind |-> "run", curLine |-> reader,
                  wasEcho |-> echo]
<1>1. /\ pc = "idle" /\ frames' = <<fr>> /\ pc' = IF Asks THEN "first" ELSE "next"
      /\ UNCHANGED <<settings, batch, exitcode, ret, seen>>
  BY DEF StartRun
<1>2. fr.once => mode = "query"
  OBVIOUS
<1> HIDE DEF fr
<1>3. Depth' = 1 /\ frames'[1] = fr /\ \A k \in 1..1 : k = 1
  BY <1>1 DEF Depth
<1>4. (Strict' <=> Strict) /\ (Strict' => exitOnError') /\ (Asks' <=> Asks)
  BY <1>1 DEF settings, Strict, Asks, Outcome
<1>5. OnceReturns'
  BY <1>2, <1>3, Zenon DEF OnceReturns
<1>6. ErrorLevel'
  BY <1>1, <1>4 DEF ErrorLevel, Outcome
<1>7. pc' = "first" => Asks'
  BY <1>1, <1>4
<1>8. SentHere'
  BY <1>1 DEF Outcome, SentHere
<1>9. EndsPassed'
  BY <1>1, NoneToEnd, NoEnds
<1>10. QED
  BY <1>4, <1>5, <1>6, <1>7, <1>8, <1>9 DEF Outcome

LEMMA StartFileOutcome ==
  ASSUME Outcome, mode' = mode, StartFile PROVE Outcome'
<1>1. pc = "idle" /\ IncludeFile(<<>>, batch, "file", TRUE)
  BY DEF StartFile
<1>2. <<>> \in Seq(Frames) /\ Clean(<<>>, Len(<<>>))
  BY DEF Clean
<1>3. Accounted(batch)
  BY <1>1 DEF Outcome, SentHere, Accounted
<1>4. QED
  BY <1>1, <1>2, <1>3, IncludeOutcome

(* run() between two calls of the engine.                                  *)
LEMMA HostOutcome ==
  ASSUME Outcome, seen \in Seen,
         UNCHANGED <<opt, exitOnError, ignoreError, frames, batch, pc, call, ret, mode>>,
         \/ UNCHANGED <<exitcode, seen>>
         \/ exitcode' = 1 /\ (SawLost \/ UNCHANGED seen)
  PROVE  Outcome'
<1>1. (Strict' <=> Strict) /\ (Strict' => exitOnError') /\ (Asks' <=> Asks)
  BY DEF Strict, Asks, Outcome
<1>2. seen'.ends = seen.ends
  BY DEF SawLost, Seen
<1>3. OnceReturns' /\ EndsPassed' /\ SentHere'
  BY <1>1, <1>2 DEF Outcome, OnceReturns, EndsPassed, SentHere, Depth
<1>4. ErrorLevel'
  BY <1>1 DEF Outcome, ErrorLevel
<1>5. QED
  BY <1>1, <1>3, <1>4 DEF Outcome

LEMMA OutcomeInit == Init => Outcome
<1> SUFFICES ASSUME Init PROVE Outcome
  OBVIOUS
<1>1. PICK start \in Starts : mode = start[1] /\ EngineInit(start[2])
  BY DEF Init
<1>2. Depth = 0 /\ 1..0 = {}
  BY <1>1 DEF EngineInit, Depth
<1>3. OnceReturns
  BY <1>2 DEF OnceReturns
<1>4. ErrorLevel /\ SentHere /\ EndsPassed
  BY <1>1 DEF ErrorLevel, SentHere, EndsPassed, EngineInit, ResetBatch
<1>5. QED
  BY <1>1, <1>3, <1>4 DEF Outcome, EngineInit, Strict

LEMMA OutcomeNext ==
  ASSUME IInv, Outcome, Next PROVE Outcome'
<1>1. EngineInv /\ seen \in Seen
  BY DEF IInv, EngineInv, EngineOK
<1>2. CASE Engine
  BY <1>1, <1>2, EngineOutcome DEF Engine, Ready
<1>3. CASE Connect
  BY <1>1, <1>3, HostOutcome DEF Connect, engine
<1>4. CASE StartupScript
  BY <1>1, <1>4, StartFileOutcome, HostOutcome DEF StartupScript, engine
<1>5. CASE ScriptDone
  BY <1>1, <1>5, HostOutcome DEF ScriptDone, engine
<1>6. CASE Main
  BY <1>1, <1>6, StartRunOutcome, HostOutcome DEF Main, engine
<1>7. CASE RunDone
  BY <1>1, <1>7, HostOutcome DEF RunDone, engine
<1>8. CASE NextFile
  <2>1. CASE StartFile /\ UNCHANGED mode
    BY <2>1, StartFileOutcome
  <2>2. CASE FileFails("files") /\ SawLost
    BY <1>1, <2>2, HostOutcome DEF FileFails
  <2>3. CASE UNCHANGED <<engine, mode>>
    BY <1>1, <2>3, HostOutcome DEF engine
  <2>4. QED
    BY <1>8, <2>1, <2>2, <2>3 DEF NextFile
<1>9. CASE FileDone
  BY <1>1, <1>9, HostOutcome DEF FileDone, FileFails, engine
<1>10. CASE Signal
  <2>1. /\ frames' = <<>> /\ batch' = ResetBatch /\ pc' = "idle"
        /\ SawForced({}) /\ UNCHANGED <<settings, mode>>
    BY <1>10 DEF Signal
  <2>2. (Strict' <=> Strict) /\ (Strict' => exitOnError')
    BY <2>1 DEF settings, Strict, Outcome
  <2>3. Depth' = 0 /\ 1..0 = {}
    BY <2>1 DEF Depth
  <2>4. OnceReturns'
    BY <2>3 DEF OnceReturns
  <2>5. ErrorLevel' /\ SentHere' /\ EndsPassed'
    BY <2>1, NoEnds DEF ErrorLevel, SentHere, SawForced, ResetBatch
  <2>6. QED
    BY <2>1, <2>2, <2>4, <2>5 DEF Outcome
<1>11. CASE UNCHANGED vars
  BY <1>1, <1>11, HostOutcome DEF vars, engine
<1>12. QED
  BY <1>2, <1>3, <1>4, <1>5, <1>6, <1>7, <1>8, <1>9, <1>10, <1>11
  DEF Next, Stopped

LEMMA OutcomeInductive == Spec => []Outcome
<1>1. IInv /\ Outcome /\ [Next]_vars => Outcome'
  <2>1. ASSUME IInv, Outcome, UNCHANGED vars PROVE Outcome'
    BY <2>1, HostOutcome DEF vars, engine, IInv, EngineInv, EngineOK
  <2>2. QED
    BY <2>1, OutcomeNext
<1>2. QED
  BY OutcomeInit, Inductive, <1>1, PTL DEF Spec

(* Text the server has run is where the next GO would run it again only if *)
(* a later run of the GO n failed, or an EXIT left it there; in every      *)
(* instance, however GO, EXIT, :r, ED and errors follow each other.        *)
THEOREM NothingReplayed == Spec => []NoSilentReplay
<1>1. Outcome => NoSilentReplay
  BY DEF Outcome, SentHere, NoSilentReplay
<1>2. QED
  BY OutcomeInductive, <1>1, PTL

(* A Run that an error or a request to exit has to end neither reads nor   *)
(* sends anything, at any nesting depth: the innermost one after EXIT or a *)
(* SQL error under -b, and up to the nearest ED after any other error.     *)
THEOREM ErrorsEndRuns == Spec => []ErrorEndsRun
<1>1. Outcome => ErrorEndsRun
  BY DEF Outcome, EndsPassed, ErrorEndsRun
<1>2. QED
  BY OutcomeInductive, <1>1, PTL

(* With -b, a process that met an error leaves a code other than 0, unless *)
(* EXIT(query) or ctrl-c chose the code after it.                          *)
THEOREM ErrorLevelsSet == Spec => []ErrorLevelSet
<1>1. Outcome => ErrorLevelSet
  BY DEF Outcome, ErrorLevel, ErrorLevelSet, Strict
<1>2. QED
  BY OutcomeInductive, <1>1, PTL
=============================================================================

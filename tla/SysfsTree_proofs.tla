--------------------------- MODULE SysfsTree_proofs ---------------------------
(***************************************************************************)
(* Proofs about SysfsTree, for devices with any number of GPIOs and ports  *)
(* and any number of DMA buffers.                                          *)
(*                                                                         *)
(* The argument has three parts.  The objects of Tree stand in the order   *)
(* of the stages of the registration, so that the ones built before an     *)
(* object are known without going through the sequence.  Each function     *)
(* that gives objects back takes away a set that can be named, and misuses *)
(* nothing if that set is held.  And as long as no failure was seen, held  *)
(* and referred objects and the counts of the groups are those of the      *)
(* objects built (AsBuilt, less what was lost to failures that nobody      *)
(* noticed), from which every error path starts.                           *)
(***************************************************************************)
EXTENDS SysfsTree, SequenceTheorems, TLAPS

-----------------------------------------------------------------------------
(* Objects and the stages of the registration. An object comes before      *)
(* another of a later stage; within a stage the entries of a group and the *)
(* DMA buffers are numbered, the objects of a Loose stage are not ordered. *)
Kinds == {"frame", "top", "buffer", "info", "infos", "dir", "set", "array", "values", "entry",
          "absent", "memory"}
PciNames == {"info", "enabled", "regions", "dpm"}
RegisterNames == {"class", "tkdevice", "minor", "device"}
BringUpNames == {"thread", "toolkit"}
InformationNames == {"dev_state", "dev_info", "ident_info", "dev_features", "fw_error"}
ControlNames == {"capture_ctl", "exec_cmd", "pi", "time", "mbx"}
TopNames == {"dev_info_dir", "hw_dir", "conf_dir", "ctl_dir"}
Names == PciNames \cup RegisterNames \cup BringUpNames \cup InformationNames
           \cup ControlNames \cup TopNames \cup Groups
           \cup {"drv_info", "dma_dir", "dma", "timeout"}
Things == Kinds \X Names \X Nat

FrameStage(n) == IF n \in PciNames \cup RegisterNames THEN 0 ELSE 5
TopStage(n) ==
    IF n = "drv_info" THEN 1 ELSE IF n = "dma_dir" THEN 2 ELSE IF n = "dev_info_dir" THEN 7
    ELSE IF n = "hw_dir" THEN 8 ELSE IF n = "conf_dir" THEN 19 ELSE 20
DirStage(n) ==
    IF n = "drv_info" THEN 6 ELSE IF n \in InformationNames THEN 7
    ELSE IF n = "timeout" THEN 19 ELSE 20
SetStage(g) ==
    IF g = "filter" THEN 9 ELSE IF g = "gpio" THEN 13 ELSE IF g = "port" THEN 15 ELSE 17
EntryStage(g) ==
    IF g = "filter" THEN 12 ELSE IF g = "gpio" THEN 14 ELSE IF g = "port" THEN 16 ELSE 18
Stage(x) ==
    IF x[1] = "frame" THEN FrameStage(x[2])
    ELSE IF x[1] = "top" THEN TopStage(x[2])
    ELSE IF x[1] = "dir" THEN DirStage(x[2])
    ELSE IF x[1] \in {"set", "absent"} THEN SetStage(x[2])
    ELSE IF x[1] = "entry" THEN EntryStage(x[2])
    ELSE IF x[1] = "infos" THEN 1
    ELSE IF x[1] = "buffer" THEN 3
    ELSE IF x[1] = "info" THEN 4
    ELSE IF x[1] = "array" THEN 10 ELSE 11

Loose == {0, 1, 5, 7, 19, 20}
Before(x, y) ==
    \/ Stage(x) < Stage(y)
    \/ Stage(x) = Stage(y) /\ (Stage(x) \notin Loose => x[3] < y[3])

(* A sequence of objects in that order, of the stages from lo to hi.       *)
Chunk(s, lo, hi) ==
    /\ s \in Seq(Things)
    /\ \A i \in 1 .. Len(s) : lo <= Stage(s[i]) /\ Stage(s[i]) <= hi
    /\ \A i, j \in 1 .. Len(s) : i < j => Before(s[i], s[j])

LEMMA StageNat == ASSUME NEW x \in Things PROVE Stage(x) \in Nat
<1>1. \A n : FrameStage(n) \in Nat BY DEF FrameStage
<1>2. \A n : TopStage(n) \in Nat BY DEF TopStage
<1>3. \A n : DirStage(n) \in Nat BY DEF DirStage
<1>4. \A n : SetStage(n) \in Nat BY DEF SetStage
<1>5. \A n : EntryStage(n) \in Nat BY DEF EntryStage
<1>6. QED BY <1>1, <1>2, <1>3, <1>4, <1>5 DEF Stage

(* What one function creates, and then another, are in order.              *)
LEMMA ChunkConcat ==
    ASSUME NEW s, NEW t, NEW a \in Nat, NEW b \in Nat, NEW c \in Nat, NEW d \in Nat,
           Chunk(s, a, b), Chunk(t, c, d), a <= c, b <= d, b < c \/ (b = c /\ c \in Loose)
    PROVE  /\ Chunk(s \o t, a, d)
           /\ Built(s \o t) = Built(s) \cup Built(t)
<1> DEFINE u == s \o t
<1>1. s \in Seq(Things) /\ t \in Seq(Things) BY DEF Chunk
<1>2. /\ u \in Seq(Things) /\ Len(u) = Len(s) + Len(t)
      /\ \A i \in 1 .. Len(s) + Len(t) : u[i] = IF i <= Len(s) THEN s[i] ELSE t[i - Len(s)]
  BY <1>1, ConcatProperties
<1> HIDE DEF u
<1>3. Len(s) \in Nat /\ Len(t) \in Nat BY <1>1
<1>4. \A i \in 1 .. Len(s) : u[i] = s[i] /\ i \in 1 .. Len(u) BY <1>2, <1>3
<1>5. \A i \in 1 .. Len(t) : u[i + Len(s)] = t[i] /\ i + Len(s) \in 1 .. Len(u)
  <2> TAKE i \in 1 .. Len(t)
  <2>1. i + Len(s) \in 1 .. Len(s) + Len(t) BY <1>3
  <2>2. ~(i + Len(s) <= Len(s)) /\ (i + Len(s)) - Len(s) = i BY <1>3
  <2>3. QED BY <1>2, <2>1, <2>2
<1>6. \A i \in 1 .. Len(u) : \/ i \in 1 .. Len(s)
                             \/ \E k \in 1 .. Len(t) : i = k + Len(s)
  <2> TAKE i \in 1 .. Len(u)
  <2>1. CASE i <= Len(s) BY <2>1, <1>2, <1>3
  <2>2. CASE i > Len(s)
    <3>1. i - Len(s) \in 1 .. Len(t) /\ i = (i - Len(s)) + Len(s) BY <2>2, <1>2, <1>3
    <3>2. QED BY <3>1
  <2>3. QED BY <2>1, <2>2, <1>2, <1>3
<1>7. /\ \A i \in 1 .. Len(s) : s[i] \in Things /\ Stage(s[i]) \in Nat
      /\ \A i \in 1 .. Len(t) : t[i] \in Things /\ Stage(t[i]) \in Nat
  BY <1>1, StageNat
<1>8. \A i \in 1 .. Len(u) : a <= Stage(u[i]) /\ Stage(u[i]) <= d
  <2> TAKE i \in 1 .. Len(u)
  <2>1. CASE i \in 1 .. Len(s)
    <3>1. a <= Stage(s[i]) /\ Stage(s[i]) <= b BY <2>1 DEF Chunk
    <3>2. QED BY <3>1, <2>1, <1>4, <1>7
  <2>2. ASSUME NEW k \in 1 .. Len(t), i = k + Len(s) PROVE a <= Stage(u[i]) /\ Stage(u[i]) <= d
    <3>1. c <= Stage(t[k]) /\ Stage(t[k]) <= d BY DEF Chunk
    <3>2. QED BY <3>1, <2>2, <1>5, <1>7
  <2>3. QED BY <2>1, <2>2, <1>6
<1>9. ASSUME NEW i \in 1 .. Len(u), NEW j \in 1 .. Len(u), i < j PROVE Before(u[i], u[j])
  <2>1. CASE j \in 1 .. Len(s)
    <3>1. i \in 1 .. Len(s) BY <2>1, <1>9, <1>3
    <3>2. Before(s[i], s[j]) BY <3>1, <2>1, <1>9 DEF Chunk
    <3>3. QED BY <3>1, <3>2, <2>1, <1>4
  <2>2. CASE \E k \in 1 .. Len(t) : j = k + Len(s)
    <3> PICK k \in 1 .. Len(t) : j = k + Len(s) BY <2>2
    <3>1. u[j] = t[k] BY <1>5
    <3>2. CASE i \in 1 .. Len(s)
      <4>1. Stage(s[i]) <= b /\ c <= Stage(t[k]) BY <3>2 DEF Chunk
      <4>2. \/ Stage(s[i]) < Stage(t[k])
            \/ Stage(s[i]) = Stage(t[k]) /\ Stage(s[i]) \in Loose
        BY <4>1, <3>2, <1>7
      <4>3. QED BY <4>2, <3>1, <3>2, <1>4 DEF Before
    <3>3. CASE \E l \in 1 .. Len(t) : i = l + Len(s)
      <4> PICK l \in 1 .. Len(t) : i = l + Len(s) BY <3>3
      <4>1. l < k BY <1>9, <1>3
      <4>2. Before(t[l], t[k]) BY <4>1 DEF Chunk
      <4>3. QED BY <4>2, <3>1, <1>5
    <3>4. QED BY <3>2, <3>3, <1>6
  <2>3. QED BY <2>1, <2>2, <1>6
<1>10. Chunk(u, a, d) BY <1>2, <1>8, <1>9 DEF Chunk
<1>11. Built(u) = Built(s) \cup Built(t)
  <2>1. ASSUME NEW x \in Built(u) PROVE x \in Built(s) \cup Built(t)
    <3>1. PICK i \in 1 .. Len(u) : x = u[i] BY DEF Built
    <3>2. CASE i \in 1 .. Len(s) BY <3>1, <3>2, <1>4 DEF Built
    <3>3. CASE \E k \in 1 .. Len(t) : i = k + Len(s) BY <3>1, <3>3, <1>5 DEF Built
    <3>4. QED BY <3>2, <3>3, <1>6
  <2>2. ASSUME NEW x \in Built(s) PROVE x \in Built(u)
    <3>1. PICK i \in 1 .. Len(s) : x = s[i] BY DEF Built
    <3>2. QED BY <3>1, <1>4 DEF Built
  <2>3. ASSUME NEW x \in Built(t) PROVE x \in Built(u)
    <3>1. PICK i \in 1 .. Len(t) : x = t[i] BY DEF Built
    <3>2. QED BY <3>1, <1>5 DEF Built
  <2>4. QED BY <2>1, <2>2, <2>3
<1>12. QED BY <1>10, <1>11 DEF u

(* The sequences of the functions that create objects, one by one:         *)
(* netana_pci_probe, netana_registerdevice, netana_create_dma and those    *)
(* that netana_create_sysfsentries calls.                                  *)
LEMMA PciChunk == /\ Chunk(PciFrames, 0, 0)
                  /\ Built(PciFrames) = {Frame(n) : n \in PciNames}
<1> DEFINE s == PciFrames
<1>1. /\ s \in Seq(Things) /\ Len(s) = 4 /\ s[1] = Frame("info") /\ s[2] = Frame("enabled")
      /\ s[3] = Frame("regions") /\ s[4] = Frame("dpm")
  <2>1. \A n \in PciNames : Frame(n) \in Things
    BY DEF Frame, Things, Kinds, Names, PciNames
  <2>2. QED BY <2>1 DEF PciFrames, PciNames
<1>2. \A n \in PciNames : Stage(Frame(n)) = 0 BY DEF Stage, Frame, FrameStage
<1> HIDE DEF s
<1>3. \A i \in 1 .. Len(s) : i = 1 \/ i = 2 \/ i = 3 \/ i = 4 BY <1>1
<1>4. \A i \in 1 .. Len(s) : Stage(s[i]) = 0 BY <1>1, <1>2, <1>3 DEF PciNames
<1>5. Chunk(s, 0, 0) BY <1>1, <1>4 DEF Chunk, Before, Loose
<1>6. Built(s) = {Frame(n) : n \in PciNames} BY <1>1, <1>3 DEF Built, PciNames
<1>7. QED BY <1>5, <1>6 DEF s

LEMMA RegisterChunk == /\ Chunk(RegisterFrames, 0, 0)
                       /\ Built(RegisterFrames) = {Frame(n) : n \in RegisterNames}
<1> DEFINE s == RegisterFrames
<1>1. /\ s \in Seq(Things) /\ Len(s) = 4 /\ s[1] = Frame("class") /\ s[2] = Frame("tkdevice")
      /\ s[3] = Frame("minor") /\ s[4] = Frame("device")
  <2>1. \A n \in RegisterNames : Frame(n) \in Things
    BY DEF Frame, Things, Kinds, Names, RegisterNames
  <2>2. QED BY <2>1 DEF RegisterFrames, RegisterNames
<1>2. \A n \in RegisterNames : Stage(Frame(n)) = 0
  BY DEF Stage, Frame, FrameStage, RegisterNames, PciNames
<1> HIDE DEF s
<1>3. \A i \in 1 .. Len(s) : i = 1 \/ i = 2 \/ i = 3 \/ i = 4 BY <1>1
<1>4. \A i \in 1 .. Len(s) : Stage(s[i]) = 0 BY <1>1, <1>2, <1>3 DEF RegisterNames
<1>5. Chunk(s, 0, 0) BY <1>1, <1>4 DEF Chunk, Before, Loose
<1>6. Built(s) = {Frame(n) : n \in RegisterNames} BY <1>1, <1>3 DEF Built, RegisterNames
<1>7. QED BY <1>5, <1>6 DEF s

LEMMA BringUpChunk == /\ Chunk(BringUp, 5, 5)
                      /\ Built(BringUp) = {Frame(n) : n \in BringUpNames}
<1> DEFINE s == BringUp
<1>1. /\ s \in Seq(Things) /\ Len(s) = 2 /\ s[1] = Frame("thread") /\ s[2] = Frame("toolkit")
  <2>1. \A n \in BringUpNames : Frame(n) \in Things
    BY DEF Frame, Things, Kinds, Names, BringUpNames
  <2>2. QED BY <2>1 DEF BringUp, BringUpNames
<1>2. \A n \in BringUpNames : Stage(Frame(n)) = 5
  BY DEF Stage, Frame, FrameStage, RegisterNames, PciNames, BringUpNames
<1> HIDE DEF s
<1>3. \A i \in 1 .. Len(s) : i = 1 \/ i = 2 BY <1>1
<1>4. \A i \in 1 .. Len(s) : Stage(s[i]) = 5 BY <1>1, <1>2, <1>3 DEF BringUpNames
<1>5. Chunk(s, 5, 5) BY <1>1, <1>4 DEF Chunk, Before, Loose
<1>6. Built(s) = {Frame(n) : n \in BringUpNames} BY <1>1, <1>3 DEF Built, BringUpNames
<1>7. QED BY <1>5, <1>6 DEF s

LEMMA SingleChunk ==
    ASSUME NEW x \in Things
    PROVE  Chunk(<<x>>, Stage(x), Stage(x)) /\ Built(<<x>>) = {x}
<1> DEFINE s == <<x>>
<1>1. s \in Seq(Things) /\ Len(s) = 1 /\ s[1] = x OBVIOUS
<1> HIDE DEF s
<1>2. \A i \in 1 .. Len(s) : i = 1 BY <1>1
<1>3. Stage(x) \in Nat BY StageNat
<1>4. Chunk(s, Stage(x), Stage(x)) BY <1>1, <1>2, <1>3 DEF Chunk
<1>5. Built(s) = {x} BY <1>1, <1>2 DEF Built
<1>6. QED BY <1>4, <1>5 DEF s

LEMMA EmptyChunk ==
    ASSUME NEW a, NEW b PROVE Chunk(<<>>, a, b) /\ Built(<<>>) = {}
<1> DEFINE s == <<>>
<1>1. s \in Seq(Things) /\ Len(s) = 0 OBVIOUS
<1> HIDE DEF s
<1>2. \A i \in 1 .. Len(s) : FALSE BY <1>1
<1>3. QED BY <1>1, <1>2 DEF Chunk, Built, s

LEMMA PairChunk ==
    ASSUME NEW x \in Things, NEW y \in Things, NEW a \in Loose,
           Stage(x) = a, Stage(y) = a
    PROVE  Chunk(<<x, y>>, a, a) /\ Built(<<x, y>>) = {x, y}
<1> DEFINE s == <<x, y>>
<1>1. s \in Seq(Things) /\ Len(s) = 2 /\ s[1] = x /\ s[2] = y OBVIOUS
<1> HIDE DEF s
<1>2. \A i \in 1 .. Len(s) : i = 1 \/ i = 2 BY <1>1
<1>3. a \in Nat BY DEF Loose
<1>4. Chunk(s, a, a) BY <1>1, <1>2, <1>3 DEF Chunk, Before
<1>5. Built(s) = {x, y} BY <1>1, <1>2 DEF Built
<1>6. QED BY <1>4, <1>5 DEF s

LEMMA EntriesChunk ==
    ASSUME NEW g \in Groups, NEW n \in Nat
    PROVE  /\ Chunk(Entries(g, n), EntryStage(g), EntryStage(g))
           /\ Built(Entries(g, n)) = {Entry(g, i) : i \in 0 .. n - 1}
<1> DEFINE s == Entries(g, n)
<1>1. \A i \in Nat : Entry(g, i) \in Things BY DEF Entry, Things, Kinds, Names, Groups
<1>2. /\ s \in Seq(Things) /\ Len(s) = n
      /\ \A i \in 1 .. n : s[i] = Entry(g, i - 1) /\ i - 1 \in Nat
  <2>1. \A i \in 1 .. n : i - 1 \in Nat OBVIOUS
  <2>2. QED BY <1>1, <2>1 DEF Entries
<1> HIDE DEF s
<1>3. \A i \in Nat : Stage(Entry(g, i)) = EntryStage(g) /\ Entry(g, i)[3] = i
  BY DEF Stage, Entry
<1>4. EntryStage(g) \in Nat /\ EntryStage(g) \notin Loose BY DEF EntryStage, Loose
<1>5. \A i, j \in 1 .. n : i < j => Before(s[i], s[j]) BY <1>2, <1>3 DEF Before
<1>6. Chunk(s, EntryStage(g), EntryStage(g)) BY <1>2, <1>3, <1>4, <1>5 DEF Chunk
<1>7. Built(s) = {Entry(g, i) : i \in 0 .. n - 1}
  <2>1. \A i \in 0 .. n - 1 : i + 1 \in 1 .. n /\ s[i + 1] = Entry(g, i) BY <1>2
  <2>2. \A i \in 1 .. n : i - 1 \in 0 .. n - 1 OBVIOUS
  <2>3. QED BY <1>2, <2>1, <2>2 DEF Built
<1>8. QED BY <1>6, <1>7 DEF s

DmaThings == {DmaBuffer(i) : i \in 1 .. DmaCnt} \cup {DmaInfo(i) : i \in 1 .. DmaCnt}
               \cup {DmaMemory, Top("dma_dir"), Top("drv_info")}

LEMMA DmaChunk == /\ Chunk(netana_create_dma, 1, 4)
                  /\ Built(netana_create_dma) = DmaThings
<1> DEFINE t == <<DmaMemory, Top("drv_info"), Top("dma_dir")>>
           b == [i \in 1 .. DmaCnt |-> DmaBuffer(i)]
           c == [i \in 1 .. DmaCnt |-> DmaInfo(i)]
<1>1. DmaCnt \in Nat BY TreeAssumption
<1>2. Chunk(t, 1, 2) /\ Built(t) = {DmaMemory, Top("drv_info"), Top("dma_dir")}
  <2>1. DmaMemory \in Things /\ Top("drv_info") \in Things /\ Top("dma_dir") \in Things
    BY DEF DmaMemory, Top, Things, Kinds, Names
  <2>2. Stage(DmaMemory) = 1 /\ Stage(Top("drv_info")) = 1 /\ Stage(Top("dma_dir")) = 2
    BY DEF Stage, DmaMemory, Top, TopStage
  <2>3. /\ t \in Seq(Things) /\ Len(t) = 3
        /\ t[1] = DmaMemory /\ t[2] = Top("drv_info") /\ t[3] = Top("dma_dir")
    BY <2>1
  <2> HIDE DEF t
  <2>4. \A i \in 1 .. Len(t) : i = 1 \/ i = 2 \/ i = 3 BY <2>3
  <2>5. 1 \in Loose BY DEF Loose
  <2>6. Chunk(t, 1, 2)
    <3>1. \A i, j \in 1 .. Len(t) : i < j => Before(t[i], t[j])
      BY <2>2, <2>3, <2>4, <2>5 DEF Before
    <3>2. QED BY <2>2, <2>3, <2>4, <3>1 DEF Chunk
  <2>7. QED BY <2>3, <2>4, <2>6 DEF Built
<1>3. Chunk(b, 3, 3) /\ Built(b) = {DmaBuffer(i) : i \in 1 .. DmaCnt}
  <2>1. \A i \in Nat : DmaBuffer(i) \in Things BY DEF DmaBuffer, Things, Kinds, Names
  <2>2. b \in Seq(Things) /\ Len(b) = DmaCnt /\ \A i \in 1 .. DmaCnt : b[i] = DmaBuffer(i)
    BY <1>1, <2>1
  <2>3. \A i \in Nat : Stage(DmaBuffer(i)) = 3 /\ DmaBuffer(i)[3] = i BY DEF Stage, DmaBuffer
  <2> HIDE DEF b
  <2>4. Chunk(b, 3, 3) BY <1>1, <2>2, <2>3 DEF Chunk, Before
  <2>5. QED BY <2>2, <2>4 DEF Built
<1>4. Chunk(c, 4, 4) /\ Built(c) = {DmaInfo(i) : i \in 1 .. DmaCnt}
  <2>1. \A i \in Nat : DmaInfo(i) \in Things BY DEF DmaInfo, Things, Kinds, Names
  <2>2. c \in Seq(Things) /\ Len(c) = DmaCnt /\ \A i \in 1 .. DmaCnt : c[i] = DmaInfo(i)
    BY <1>1, <2>1
  <2>3. \A i \in Nat : Stage(DmaInfo(i)) = 4 /\ DmaInfo(i)[3] = i BY DEF Stage, DmaInfo
  <2> HIDE DEF c
  <2>4. Chunk(c, 4, 4) BY <1>1, <2>2, <2>3 DEF Chunk, Before
  <2>5. QED BY <2>2, <2>4 DEF Built
<1>5. netana_create_dma = (t \o b) \o c BY DEF netana_create_dma
<1> HIDE DEF t, b, c
<1>6. Chunk(t \o b, 1, 3) /\ Built(t \o b) = Built(t) \cup Built(b)
  BY <1>2, <1>3, ChunkConcat
<1>7. /\ Chunk((t \o b) \o c, 1, 4)
      /\ Built((t \o b) \o c) = Built(t \o b) \cup Built(c)
  BY <1>4, <1>6, ChunkConcat
<1>8. QED BY <1>2, <1>3, <1>4, <1>5, <1>6, <1>7 DEF DmaThings

LEMMA SixChunk ==
    ASSUME NEW a \in Loose, NEW x1 \in Things, NEW x2 \in Things, NEW x3 \in Things,
           NEW x4 \in Things, NEW x5 \in Things, NEW x6 \in Things,
           \A x \in {x1, x2, x3, x4, x5, x6} : Stage(x) = a
    PROVE  /\ Chunk(<<x1, x2, x3, x4, x5, x6>>, a, a)
           /\ Built(<<x1, x2, x3, x4, x5, x6>>) = {x1, x2, x3, x4, x5, x6}
<1> DEFINE s == <<x1, x2, x3, x4, x5, x6>>
<1>1. /\ s \in Seq(Things) /\ Len(s) = 6 /\ s[1] = x1 /\ s[2] = x2 /\ s[3] = x3
      /\ s[4] = x4 /\ s[5] = x5 /\ s[6] = x6
  OBVIOUS
<1> HIDE DEF s
<1>2. \A i \in 1 .. Len(s) : i = 1 \/ i = 2 \/ i = 3 \/ i = 4 \/ i = 5 \/ i = 6 BY <1>1
<1>3. a \in Nat BY DEF Loose
<1>4. \A i \in 1 .. Len(s) : Stage(s[i]) = a BY <1>1, <1>2
<1>5. Chunk(s, a, a) BY <1>1, <1>3, <1>4 DEF Chunk, Before
<1>6. Built(s) = {x1, x2, x3, x4, x5, x6} BY <1>1, <1>2 DEF Built
<1>7. QED BY <1>5, <1>6 DEF s

InformationThings == {Top("dev_info_dir")} \cup {Dir(n) : n \in InformationNames}
ControlThings == {Top("ctl_dir")} \cup {Dir(n) : n \in ControlNames}

LEMMA InformationChunk == /\ Chunk(DeviceInformation, 7, 7)
                          /\ Built(DeviceInformation) = InformationThings
<1>1. \A n \in InformationNames : Dir(n) \in Things /\ Stage(Dir(n)) = 7
  BY DEF Dir, Things, Kinds, Names, InformationNames, Stage, DirStage
<1>2. Top("dev_info_dir") \in Things /\ Stage(Top("dev_info_dir")) = 7
  BY DEF Top, Things, Kinds, Names, TopNames, Stage, TopStage
<1>3. 7 \in Loose BY DEF Loose
<1> DEFINE x1 == Top("dev_info_dir") x2 == Dir("dev_state") x3 == Dir("dev_info")
           x4 == Dir("ident_info") x5 == Dir("dev_features") x6 == Dir("fw_error")
<1>4. /\ x1 \in Things /\ x2 \in Things /\ x3 \in Things /\ x4 \in Things /\ x5 \in Things
      /\ x6 \in Things
  BY <1>1, <1>2 DEF InformationNames
<1>5. \A x \in {x1, x2, x3, x4, x5, x6} : Stage(x) = 7 BY <1>1, <1>2 DEF InformationNames
<1>6. DeviceInformation = <<x1, x2, x3, x4, x5, x6>> BY DEF DeviceInformation
<1>7. InformationThings = {x1, x2, x3, x4, x5, x6} BY DEF InformationThings, InformationNames
<1> HIDE DEF x1, x2, x3, x4, x5, x6
<1>8. QED BY <1>3, <1>4, <1>5, <1>6, <1>7, SixChunk

LEMMA ControlChunk == /\ Chunk(DeviceControl, 20, 20)
                      /\ Built(DeviceControl) = ControlThings
<1>1. \A n \in ControlNames : Dir(n) \in Things /\ Stage(Dir(n)) = 20
  BY DEF Dir, Things, Kinds, Names, InformationNames, ControlNames, Stage, DirStage
<1>2. Top("ctl_dir") \in Things /\ Stage(Top("ctl_dir")) = 20
  BY DEF Top, Things, Kinds, Names, TopNames, Stage, TopStage
<1>3. 20 \in Loose BY DEF Loose
<1> DEFINE x1 == Top("ctl_dir") x2 == Dir("capture_ctl") x3 == Dir("exec_cmd")
           x4 == Dir("pi") x5 == Dir("time") x6 == Dir("mbx")
<1>4. /\ x1 \in Things /\ x2 \in Things /\ x3 \in Things /\ x4 \in Things /\ x5 \in Things
      /\ x6 \in Things
  BY <1>1, <1>2 DEF ControlNames
<1>5. \A x \in {x1, x2, x3, x4, x5, x6} : Stage(x) = 20 BY <1>1, <1>2 DEF ControlNames
<1>6. DeviceControl = <<x1, x2, x3, x4, x5, x6>> BY DEF DeviceControl
<1>7. ControlThings = {x1, x2, x3, x4, x5, x6} BY DEF ControlThings, ControlNames
<1> HIDE DEF x1, x2, x3, x4, x5, x6
<1>8. QED BY <1>3, <1>4, <1>5, <1>6, <1>7, SixChunk

FilterThings(n) ==
    IF n = 0 THEN {} ELSE {Set("filter"), Array("filter"), FilterBuffers}
                            \cup {Entry("filter", i) : i \in 0 .. n - 1}
GpioThings(n) ==
    IF n = 0 THEN {} ELSE {Set("gpio")} \cup {Entry("gpio", i) : i \in 0 .. n}
PortThings(g, n) ==
    IF n = 0 THEN {Absent(g)} ELSE {Set(g)} \cup {Entry(g, i) : i \in 0 .. n - 1}

LEMMA FilterChunk ==
    ASSUME NEW n \in Nat
    PROVE  /\ Chunk(nasysfs_create_filter_dir(n), 9, 12)
           /\ Built(nasysfs_create_filter_dir(n)) = FilterThings(n)
<1>1. CASE n = 0 BY <1>1, EmptyChunk DEF nasysfs_create_filter_dir, FilterThings
<1>2. CASE n # 0
  <2> DEFINE s == <<Set("filter"), Array("filter"), FilterBuffers>>
             e == Entries("filter", n)
  <2>1. /\ Set("filter") \in Things /\ Array("filter") \in Things /\ FilterBuffers \in Things
    BY DEF Set, Array, FilterBuffers, Things, Kinds, Names, Groups
  <2>2. /\ Stage(Set("filter")) = 9 /\ Stage(Array("filter")) = 10
        /\ Stage(FilterBuffers) = 11
    BY DEF Set, Array, FilterBuffers, Stage, SetStage
  <2>3. /\ s \in Seq(Things) /\ Len(s) = 3 /\ s[1] = Set("filter") /\ s[2] = Array("filter")
        /\ s[3] = FilterBuffers
    BY <2>1
  <2>4. nasysfs_create_filter_dir(n) = s \o e BY <1>2 DEF nasysfs_create_filter_dir
  <2>5. EntryStage("filter") = 12 /\ "filter" \in Groups BY DEF EntryStage, Groups
  <2>6. /\ Chunk(e, 12, 12) /\ Built(e) = {Entry("filter", i) : i \in 0 .. n - 1}
    BY <2>5, EntriesChunk
  <2> HIDE DEF s, e
  <2>7. \A i \in 1 .. Len(s) : i = 1 \/ i = 2 \/ i = 3 BY <2>3
  <2>8. Chunk(s, 9, 11) BY <2>2, <2>3, <2>7 DEF Chunk, Before
  <2>9. Built(s) = {Set("filter"), Array("filter"), FilterBuffers} BY <2>3, <2>7 DEF Built
  <2>10. Chunk(s \o e, 9, 12) /\ Built(s \o e) = Built(s) \cup Built(e)
    BY <2>6, <2>8, ChunkConcat
  <2>11. QED BY <1>2, <2>4, <2>6, <2>9, <2>10 DEF FilterThings
<1>3. QED BY <1>1, <1>2

LEMMA SetChunk ==
    ASSUME NEW g \in Groups, NEW n \in Nat, g # "filter"
    PROVE  /\ Chunk(<<Set(g)>> \o Entries(g, n), SetStage(g), EntryStage(g))
           /\ Built(<<Set(g)>> \o Entries(g, n)) = {Set(g)} \cup {Entry(g, i) : i \in 0 .. n - 1}
<1>1. Set(g) \in Things /\ Stage(Set(g)) = SetStage(g)
  BY DEF Set, Things, Kinds, Names, Groups, Stage
<1> DEFINE s == <<Set(g)>>
           e == Entries(g, n)
<1>2. Chunk(s, SetStage(g), SetStage(g)) /\ Built(s) = {Set(g)} BY <1>1, SingleChunk
<1>3. /\ Chunk(e, EntryStage(g), EntryStage(g))
      /\ Built(e) = {Entry(g, i) : i \in 0 .. n - 1}
  BY EntriesChunk
<1>4. /\ SetStage(g) \in Nat /\ EntryStage(g) \in Nat /\ SetStage(g) < EntryStage(g)
  BY DEF SetStage, EntryStage, Groups
<1> HIDE DEF s, e
<1>5. Chunk(s \o e, SetStage(g), EntryStage(g)) /\ Built(s \o e) = Built(s) \cup Built(e)
  BY <1>2, <1>3, <1>4, ChunkConcat
<1>6. QED BY <1>2, <1>3, <1>5 DEF s, e

LEMMA GpioChunk ==
    ASSUME NEW n \in Nat
    PROVE  /\ Chunk(nasysfs_create_gpio_dir(n), 13, 14)
           /\ Built(nasysfs_create_gpio_dir(n)) = GpioThings(n)
<1>1. CASE n = 0 BY <1>1, EmptyChunk DEF nasysfs_create_gpio_dir, GpioThings
<1>2. CASE n # 0
  <2>1. "gpio" \in Groups /\ SetStage("gpio") = 13 /\ EntryStage("gpio") = 14
    BY DEF Groups, SetStage, EntryStage
  <2>2. n + 1 \in Nat /\ 0 .. n = 0 .. (n + 1) - 1 OBVIOUS
  <2>3. /\ Chunk(<<Set("gpio")>> \o Entries("gpio", n + 1), 13, 14)
        /\ Built(<<Set("gpio")>> \o Entries("gpio", n + 1))
             = {Set("gpio")} \cup {Entry("gpio", i) : i \in 0 .. (n + 1) - 1}
    BY <2>1, <2>2, SetChunk
  <2>4. QED BY <1>2, <2>2, <2>3 DEF nasysfs_create_gpio_dir, GpioThings
<1>3. QED BY <1>1, <1>2

LEMMA AbsentChunk ==
    ASSUME NEW g \in Groups
    PROVE  Chunk(<<Absent(g)>>, SetStage(g), EntryStage(g)) /\ Built(<<Absent(g)>>) = {Absent(g)}
<1>1. Absent(g) \in Things /\ Stage(Absent(g)) = SetStage(g)
  BY DEF Absent, Things, Kinds, Names, Groups, Stage
<1> DEFINE s == <<Absent(g)>>
<1>2. Chunk(s, SetStage(g), SetStage(g)) /\ Built(s) = {Absent(g)} BY <1>1, SingleChunk
<1>3. /\ SetStage(g) \in Nat /\ EntryStage(g) \in Nat /\ SetStage(g) < EntryStage(g)
  BY DEF SetStage, EntryStage, Groups
<1> HIDE DEF s
<1>4. Chunk(s, SetStage(g), EntryStage(g))
  <2>1. \A i \in 1 .. Len(s) : s[i] \in Things /\ Stage(s[i]) = SetStage(g)
    <3>1. \A i \in 1 .. Len(s) : s[i] \in Things /\ Stage(s[i]) \in Nat
      BY <1>2, StageNat DEF Chunk
    <3>2. QED BY <3>1, <1>2, <1>3 DEF Chunk
  <2>2. QED BY <2>1, <1>2, <1>3 DEF Chunk
<1>5. QED BY <1>2, <1>4 DEF s

LEMMA PortChunk ==
    ASSUME NEW n \in Nat
    PROVE  /\ Chunk(nasysfs_create_port_dir(n), 15, 16)
           /\ Built(nasysfs_create_port_dir(n)) = PortThings("port", n)
<1>1. "port" \in Groups /\ SetStage("port") = 15 /\ EntryStage("port") = 16
  BY DEF Groups, SetStage, EntryStage
<1>2. CASE n = 0
  <2>1. Chunk(<<Absent("port")>>, 15, 16) /\ Built(<<Absent("port")>>) = {Absent("port")}
    BY <1>1, AbsentChunk
  <2>2. QED BY <1>2, <2>1 DEF nasysfs_create_port_dir, PortThings
<1>3. CASE n # 0
  <2>1. /\ Chunk(<<Set("port")>> \o Entries("port", n), 15, 16)
        /\ Built(<<Set("port")>> \o Entries("port", n))
             = {Set("port")} \cup {Entry("port", i) : i \in 0 .. n - 1}
    BY <1>1, SetChunk
  <2>2. QED BY <1>3, <2>1 DEF nasysfs_create_port_dir, PortThings
<1>4. QED BY <1>2, <1>3

LEMMA PhyChunk ==
    ASSUME NEW n \in Nat
    PROVE  /\ Chunk(nasysfs_create_phy_dir(n), 17, 18)
           /\ Built(nasysfs_create_phy_dir(n)) = PortThings("phy", n)
<1>1. "phy" \in Groups /\ SetStage("phy") = 17 /\ EntryStage("phy") = 18
  BY DEF Groups, SetStage, EntryStage
<1>2. CASE n = 0
  <2>1. Chunk(<<Absent("phy")>>, 17, 18) /\ Built(<<Absent("phy")>>) = {Absent("phy")}
    BY <1>1, AbsentChunk
  <2>2. QED BY <1>2, <2>1 DEF nasysfs_create_phy_dir, PortThings
<1>3. CASE n # 0
  <2>1. /\ Chunk(<<Set("phy")>> \o Entries("phy", n), 17, 18)
        /\ Built(<<Set("phy")>> \o Entries("phy", n))
             = {Set("phy")} \cup {Entry("phy", i) : i \in 0 .. n - 1}
    BY <1>1, SetChunk
  <2>2. QED BY <1>3, <2>1 DEF nasysfs_create_phy_dir, PortThings
<1>4. QED BY <1>2, <1>3

(* All of netana_create_sysfsentries, and the whole registration.          *)
SysfsThings ==
    {Dir("drv_info")} \cup InformationThings \cup {Top("hw_dir")}
      \cup FilterThings(device.gpios) \cup GpioThings(device.gpios)
      \cup PortThings("port", device.ports) \cup PortThings("phy", device.ports)
      \cup {Top("conf_dir"), Dir("timeout")} \cup ControlThings
FirstFrames == {Frame(n) : n \in PciNames \cup RegisterNames}
TreeThings ==
    FirstFrames \cup DmaThings \cup {Frame(n) : n \in BringUpNames} \cup SysfsThings
Counted == device.gpios \in Nat /\ device.ports \in Nat

LEMMA SysfsChunk ==
    ASSUME Counted
    PROVE  /\ Chunk(netana_create_sysfsentries, 6, 20)
           /\ Built(netana_create_sysfsentries) = SysfsThings
<1> DEFINE a == <<Dir("drv_info")>>
           c == <<Top("hw_dir")>>
           f == nasysfs_create_filter_dir(device.gpios)
           g == nasysfs_create_gpio_dir(device.gpios)
           p == nasysfs_create_port_dir(device.ports)
           y == nasysfs_create_phy_dir(device.ports)
           t == <<Top("conf_dir"), Dir("timeout")>>
           b == DeviceInformation
           d == DeviceControl
<1>1. Chunk(a, 6, 6) /\ Built(a) = {Dir("drv_info")}
  <2>1. Dir("drv_info") \in Things /\ Stage(Dir("drv_info")) = 6
    BY DEF Dir, Things, Kinds, Names, Stage, DirStage
  <2>2. QED BY <2>1, SingleChunk
<1>2. Chunk(c, 8, 8) /\ Built(c) = {Top("hw_dir")}
  <2>1. Top("hw_dir") \in Things /\ Stage(Top("hw_dir")) = 8
    BY DEF Top, Things, Kinds, Names, TopNames, Stage, TopStage
  <2>2. QED BY <2>1, SingleChunk
<1>3. Chunk(t, 19, 19) /\ Built(t) = {Top("conf_dir"), Dir("timeout")}
  <2>1. /\ Top("conf_dir") \in Things /\ Stage(Top("conf_dir")) = 19
        /\ Dir("timeout") \in Things /\ Stage(Dir("timeout")) = 19
    BY DEF Top, Dir, Things, Kinds, Names, TopNames, Stage, TopStage, DirStage, InformationNames
  <2>2. 19 \in Loose BY DEF Loose
  <2>3. QED BY <2>1, <2>2, PairChunk
<1>4. Chunk(b, 7, 7) /\ Built(b) = InformationThings BY InformationChunk
<1>5. Chunk(d, 20, 20) /\ Built(d) = ControlThings BY ControlChunk
<1>6. Chunk(f, 9, 12) /\ Built(f) = FilterThings(device.gpios) BY FilterChunk DEF Counted
<1>7. Chunk(g, 13, 14) /\ Built(g) = GpioThings(device.gpios) BY GpioChunk DEF Counted
<1>8. Chunk(p, 15, 16) /\ Built(p) = PortThings("port", device.ports)
  BY PortChunk DEF Counted
<1>9. Chunk(y, 17, 18) /\ Built(y) = PortThings("phy", device.ports) BY PhyChunk DEF Counted
<1>10. netana_create_sysfsentries = (((((((a \o b) \o c) \o f) \o g) \o p) \o y) \o t) \o d
  BY DEF netana_create_sysfsentries
<1> HIDE DEF a, b, c, d, f, g, p, y, t
<1> DEFINE s1 == a \o b
<1>11. Chunk(s1, 6, 7) /\ Built(s1) = Built(a) \cup Built(b) BY <1>1, <1>4, ChunkConcat
<1> HIDE DEF s1
<1> DEFINE s2 == s1 \o c
<1>12. Chunk(s2, 6, 8) /\ Built(s2) = Built(s1) \cup Built(c) BY <1>11, <1>2, ChunkConcat
<1> HIDE DEF s2
<1> DEFINE s3 == s2 \o f
<1>13. Chunk(s3, 6, 12) /\ Built(s3) = Built(s2) \cup Built(f) BY <1>12, <1>6, ChunkConcat
<1> HIDE DEF s3
<1> DEFINE s4 == s3 \o g
<1>14. Chunk(s4, 6, 14) /\ Built(s4) = Built(s3) \cup Built(g) BY <1>13, <1>7, ChunkConcat
<1> HIDE DEF s4
<1> DEFINE s5 == s4 \o p
<1>15. Chunk(s5, 6, 16) /\ Built(s5) = Built(s4) \cup Built(p) BY <1>14, <1>8, ChunkConcat
<1> HIDE DEF s5
<1> DEFINE s6 == s5 \o y
<1>16. Chunk(s6, 6, 18) /\ Built(s6) = Built(s5) \cup Built(y) BY <1>15, <1>9, ChunkConcat
<1> HIDE DEF s6
<1> DEFINE s7 == s6 \o t
<1>17. Chunk(s7, 6, 19) /\ Built(s7) = Built(s6) \cup Built(t) BY <1>16, <1>3, ChunkConcat
<1> HIDE DEF s7
<1>18. Chunk(s7 \o d, 6, 20) /\ Built(s7 \o d) = Built(s7) \cup Built(d)
  BY <1>17, <1>5, ChunkConcat
<1>19. netana_create_sysfsentries = s7 \o d BY <1>10 DEF s1, s2, s3, s4, s5, s6, s7
<1>20. Built(s7 \o d) = SysfsThings
  BY <1>1, <1>2, <1>3, <1>4, <1>5, <1>6, <1>7, <1>8, <1>9, <1>11, <1>12, <1>13, <1>14,
     <1>15, <1>16, <1>17, <1>18 DEF SysfsThings
<1>21. QED BY <1>18, <1>19, <1>20

LEMMA FramesChunk == /\ Chunk(PciFrames \o RegisterFrames, 0, 0)
                     /\ Built(PciFrames \o RegisterFrames) = FirstFrames
<1>1. /\ Chunk(PciFrames \o RegisterFrames, 0, 0)
      /\ Built(PciFrames \o RegisterFrames) = Built(PciFrames) \cup Built(RegisterFrames)
  BY PciChunk, RegisterChunk, ChunkConcat DEF Loose
<1>2. FirstFrames = {Frame(n) : n \in PciNames} \cup {Frame(n) : n \in RegisterNames}
  BY DEF FirstFrames
<1>3. QED BY <1>1, <1>2, PciChunk, RegisterChunk

LEMMA AllFrames == Frames = FirstFrames \cup {Frame(n) : n \in BringUpNames}
<1> DEFINE a == PciFrames \o RegisterFrames
<1>1. Chunk(a, 0, 0) /\ Built(a) = FirstFrames BY FramesChunk
<1>2. Frames = Built(a \o BringUp) BY DEF Frames
<1> HIDE DEF a
<1>3. Built(a \o BringUp) = Built(a) \cup Built(BringUp) BY <1>1, BringUpChunk, ChunkConcat
<1>4. QED BY <1>1, <1>2, <1>3, BringUpChunk

LEMMA TreeChunk ==
    ASSUME Counted
    PROVE  Chunk(Tree, 0, 20) /\ Built(Tree) = TreeThings
<1> DEFINE a == PciFrames \o RegisterFrames
           d == netana_create_dma
           b == BringUp
           e == netana_create_sysfsentries
<1>1. Chunk(a, 0, 0) /\ Built(a) = FirstFrames BY FramesChunk
<1>2. Chunk(d, 1, 4) /\ Built(d) = DmaThings BY DmaChunk
<1>3. Chunk(b, 5, 5) /\ Built(b) = {Frame(n) : n \in BringUpNames} BY BringUpChunk
<1>4. Chunk(e, 6, 20) /\ Built(e) = SysfsThings BY SysfsChunk
<1>5. Tree = ((a \o d) \o b) \o e BY DEF Tree
<1> HIDE DEF a, b, d, e
<1> DEFINE s1 == a \o d
<1>6. Chunk(s1, 0, 4) /\ Built(s1) = Built(a) \cup Built(d) BY <1>1, <1>2, ChunkConcat
<1> HIDE DEF s1
<1> DEFINE s2 == s1 \o b
<1>7. Chunk(s2, 0, 5) /\ Built(s2) = Built(s1) \cup Built(b) BY <1>6, <1>3, ChunkConcat
<1> HIDE DEF s2
<1>8. Chunk(s2 \o e, 0, 20) /\ Built(s2 \o e) = Built(s2) \cup Built(e)
  BY <1>7, <1>4, ChunkConcat
<1>9. Tree = s2 \o e BY <1>5 DEF s1, s2
<1>10. QED BY <1>1, <1>2, <1>3, <1>4, <1>6, <1>7, <1>8, <1>9 DEF TreeThings

(* The first p objects, and what comes before and after an object.         *)
Past(p) == {Tree[i] : i \in 1 .. p}

(* The DSR thread comes after what netana_create_dma creates and is        *)
(* created once.                                                           *)
LEMMA ThreadPlace ==
    ASSUME Counted
    PROVE  /\ Built(BeforeThread) = FirstFrames \cup DmaThings
           /\ Len(BeforeThread) \in Nat /\ Len(BeforeThread) < Len(Tree)
           /\ Past(Len(BeforeThread)) = FirstFrames \cup DmaThings
           /\ \A p \in Nat : p < Len(Tree) /\ Tree[p + 1] = Frame("thread")
                              => p = Len(BeforeThread)
           /\ \A p \in Nat : p < Len(Tree) /\ Tree[p + 1] = Frame("toolkit")
                              => Frame("thread") \in Past(p)
<1> DEFINE a == PciFrames \o RegisterFrames
           d == netana_create_dma
           b == BringUp
           e == netana_create_sysfsentries
           A == BeforeThread
           B == A \o b
<1>1. Chunk(a, 0, 0) /\ Built(a) = FirstFrames BY FramesChunk
<1>2. Chunk(d, 1, 4) /\ Built(d) = DmaThings BY DmaChunk
<1>3. Chunk(b, 5, 5) /\ Built(b) = {Frame(n) : n \in BringUpNames} BY BringUpChunk
<1>4. Chunk(e, 6, 20) /\ Built(e) = SysfsThings BY SysfsChunk
<1>5. A = a \o d /\ Tree = B \o e BY DEF Tree, BeforeThread
<1>6. Len(b) = 2 /\ b[1] = Frame("thread") /\ b[2] = Frame("toolkit") BY DEF BringUp
<1> HIDE DEF a, d, b, e, A, B
<1>7. Chunk(a \o d, 0, 4) /\ Built(a \o d) = Built(a) \cup Built(d) BY <1>1, <1>2, ChunkConcat
<1>8. Chunk(A, 0, 4) /\ Built(A) = FirstFrames \cup DmaThings BY <1>1, <1>2, <1>5, <1>7
<1>9. Chunk(A \o b, 0, 5) BY <1>8, <1>3, ChunkConcat
<1>10. A \in Seq(Things) /\ b \in Seq(Things) /\ e \in Seq(Things) /\ B \in Seq(Things)
  BY <1>8, <1>3, <1>4, <1>9 DEF Chunk, B
<1>11. /\ Len(B) = Len(A) + Len(b)
       /\ \A i \in 1 .. Len(A) + Len(b) : B[i] = IF i <= Len(A) THEN A[i] ELSE b[i - Len(A)]
  BY <1>10, ConcatProperties DEF B
<1>12. /\ Len(Tree) = Len(B) + Len(e)
       /\ \A i \in 1 .. Len(B) + Len(e) : Tree[i] = IF i <= Len(B) THEN B[i] ELSE e[i - Len(B)]
  BY <1>5, <1>10, ConcatProperties
<1>13. Len(A) \in Nat /\ Len(e) \in Nat BY <1>10
<1>14. \A i \in 1 .. Len(A) : Tree[i] = A[i]
  <2> TAKE i \in 1 .. Len(A)
  <2>1. i \in 1 .. Len(A) + Len(b) /\ i <= Len(A) /\ i <= Len(B)
        /\ i \in 1 .. Len(B) + Len(e)
    BY <1>6, <1>11, <1>13
  <2>2. QED BY <2>1, <1>11, <1>12
<1>15. Past(Len(A)) = Built(A) BY <1>14 DEF Past, Built
<1>16. \A i \in 1 .. Len(A) : Stage(Tree[i]) <= 4 /\ Stage(Tree[i]) \in Nat
  BY <1>8, <1>14, <1>10, StageNat DEF Chunk
<1>17. Stage(Frame("thread")) = 5 BY DEF Stage, Frame, FrameStage, RegisterNames, PciNames
<1>18. ASSUME NEW p \in Nat, p < Len(Tree), Tree[p + 1] = Frame("thread") PROVE p = Len(A)
  <2>1. CASE p < Len(A)
    <3>1. p + 1 \in 1 .. Len(A) BY <2>1, <1>13
    <3>2. QED BY <3>1, <1>16, <1>17, <1>18
  <2>2. CASE p = Len(A) + 1
    <3>1. p + 1 \in 1 .. Len(A) + Len(b) /\ ~(p + 1 <= Len(A)) /\ p + 1 - Len(A) = 2
          /\ p + 1 \in 1 .. Len(B) + Len(e) /\ p + 1 <= Len(B)
      BY <2>2, <1>6, <1>11, <1>13
    <3>2. Tree[p + 1] = Frame("toolkit") BY <3>1, <1>6, <1>11, <1>12
    <3>3. QED BY <3>2, <1>18 DEF Frame
  <2>3. CASE p > Len(A) + 1
    <3>1. p + 1 \in 1 .. Len(B) + Len(e) /\ ~(p + 1 <= Len(B)) /\ p + 1 - Len(B) \in 1 .. Len(e)
      BY <2>3, <1>6, <1>11, <1>12, <1>13, <1>18
    <3>2. Tree[p + 1] = e[p + 1 - Len(B)] BY <3>1, <1>12
    <3>3. 6 <= Stage(Tree[p + 1]) BY <3>1, <3>2, <1>4 DEF Chunk
    <3>4. QED BY <3>3, <1>17, <1>18
  <2>4. QED BY <2>1, <2>2, <2>3, <1>13
<1>19. Len(A) < Len(Tree) BY <1>6, <1>11, <1>12, <1>13
<1>20. ASSUME NEW p \in Nat, p < Len(Tree), Tree[p + 1] = Frame("toolkit")
       PROVE  Frame("thread") \in Past(p)
  <2>1. /\ Len(A) + 1 \in 1 .. Len(A) + Len(b) /\ ~(Len(A) + 1 <= Len(A))
        /\ Len(A) + 1 - Len(A) = 1 /\ Len(A) + 1 \in 1 .. Len(B) + Len(e)
        /\ Len(A) + 1 <= Len(B)
    BY <1>6, <1>11, <1>13
  <2>2. Tree[Len(A) + 1] = Frame("thread") BY <2>1, <1>6, <1>11, <1>12
  <2>3. Stage(Tree[p + 1]) = 5
    BY <1>20 DEF Stage, Frame, FrameStage, RegisterNames, PciNames
  <2>4. ~(p + 1 <= Len(A)) BY <2>3, <1>13, <1>16
  <2>5. p # Len(A) BY <1>20, <2>2 DEF Frame
  <2>6. Len(A) + 1 \in 1 .. p BY <2>4, <2>5, <1>13
  <2>7. QED BY <2>2, <2>6 DEF Past
<1>21. QED BY <1>8, <1>13, <1>15, <1>18, <1>19, <1>20 DEF A

LEMMA CreationOrder ==
    ASSUME Counted, NEW p \in Nat, p < Len(Tree), NEW x, x = Tree[p + 1]
    PROVE  /\ x \in TreeThings /\ x \notin Past(p) \cap {y \in Things : Stage(y) \notin Loose}
           /\ \A y \in Past(p) : y \in TreeThings /\ Before(y, x)
           /\ \A y \in TreeThings : y \in Past(p) \/ y = x \/ Before(x, y)
           /\ Past(p + 1) = Past(p) \cup {x}
<1>1. Chunk(Tree, 0, 20) /\ Built(Tree) = TreeThings BY TreeChunk
<1>2. Tree \in Seq(Things) /\ Len(Tree) \in Nat BY <1>1 DEF Chunk
<1>3. p + 1 \in 1 .. Len(Tree) BY <1>2
<1>4. x \in TreeThings BY <1>1, <1>3 DEF Built
<1>5. \A y \in Past(p) : y \in TreeThings /\ Before(y, x)
  <2> TAKE y \in Past(p)
  <2>1. PICK i \in 1 .. p : y = Tree[i] BY DEF Past
  <2>2. i \in 1 .. Len(Tree) /\ i < p + 1 BY <1>2
  <2>3. QED BY <1>1, <1>3, <2>1, <2>2 DEF Built, Chunk
<1>6. \A y \in TreeThings : y \in Past(p) \/ y = x \/ Before(x, y)
  <2> TAKE y \in TreeThings
  <2>1. PICK i \in 1 .. Len(Tree) : y = Tree[i] BY <1>1 DEF Built
  <2>2. CASE i <= p
    <3>1. i \in 1 .. p BY <2>2
    <3>2. QED BY <2>1, <3>1 DEF Past
  <2>3. CASE i = p + 1 BY <2>1, <2>3
  <2>4. CASE i > p + 1 BY <1>1, <1>3, <2>1, <2>4 DEF Chunk
  <2>5. QED BY <2>2, <2>3, <2>4
<1>7. Past(p + 1) = Past(p) \cup {x}
  <2>1. 1 .. p + 1 = (1 .. p) \cup {p + 1} OBVIOUS
  <2>2. QED BY <2>1 DEF Past
<1>8. x \in Things BY <1>2, <1>3
<1>9. x \notin Past(p) \cap {y \in Things : Stage(y) \notin Loose}
  <2>1. SUFFICES ASSUME x \in Past(p), Stage(x) \notin Loose PROVE FALSE OBVIOUS
  <2>2. Before(x, x) BY <2>1, <1>5
  <2>3. Stage(x) \in Nat /\ x[3] \in Nat BY <1>8, StageNat DEF Things
  <2>4. QED BY <2>1, <2>2, <2>3 DEF Before
<1>10. QED BY <1>4, <1>5, <1>6, <1>7, <1>9

LEMMA PastEnds == ASSUME Counted
                  PROVE  Past(0) = {} /\ Past(Len(Tree)) = TreeThings /\ Len(Tree) \in Nat
<1>1. Chunk(Tree, 0, 20) /\ Built(Tree) = TreeThings BY TreeChunk
<1>2. Tree \in Seq(Things) /\ Len(Tree) \in Nat BY <1>1 DEF Chunk
<1>3. 1 .. 0 = {} OBVIOUS
<1>4. QED BY <1>1, <1>2, <1>3 DEF Past, Built

LEMMA TreeThingsType == ASSUME Counted PROVE TreeThings \subseteq Things
<1>1. Chunk(Tree, 0, 20) /\ Built(Tree) = TreeThings BY TreeChunk
<1>2. QED BY <1>1 DEF Built, Chunk

-----------------------------------------------------------------------------

(* What the functions that give back do to a tree. Whole(T, g) is what     *)
(* cleanup_objset and the put of the set give back, Neat(T, g) says that   *)
(* it is held if netana_info points to the set.                            *)
TreeRecord == [held : SUBSET Things, refs : SUBSET Things, cnt : [Groups -> Nat],
               misused : SUBSET Things]

LEMMA PutIs ==
    ASSUME NEW T \in TreeRecord, NEW X \in SUBSET Things, NEW S, S = Put(T, X)
    PROVE  /\ S \in TreeRecord /\ S.refs = T.refs /\ S.cnt = T.cnt
           /\ S.held = T.held \ X /\ S.misused = T.misused \cup (X \ T.held)
BY DEF Put, TreeRecord

LEMMA UseIs ==
    ASSUME NEW T \in TreeRecord, NEW X \in SUBSET Things, NEW S, S = Use(T, X)
    PROVE  /\ S \in TreeRecord /\ S.refs = T.refs /\ S.cnt = T.cnt
           /\ S.held = T.held /\ S.misused = T.misused \cup (X \ T.held)
BY DEF Use, TreeRecord

LEMMA KfreeIs ==
    ASSUME NEW T \in TreeRecord, NEW x, NEW S, S = kfree(T, x)
    PROVE  /\ S \in TreeRecord /\ S.refs = T.refs /\ S.cnt = T.cnt
           /\ S.held = T.held \ {x} /\ S.misused = T.misused
BY DEF kfree, TreeRecord

Members(T, g) == {Entry(g, i) : i \in 1 .. T.cnt[g] - 1}
Whole(T, g) == {Set(g), Array(g)} \cup Members(T, g)
Neat(T, g) == Set(g) \in T.refs => Whole(T, g) \subseteq T.held
Stuff(T, g) == IF Set(g) \in T.refs THEN Whole(T, g) ELSE {}

LEMMA GroupThings ==
    ASSUME NEW T \in TreeRecord, NEW g \in Groups PROVE Whole(T, g) \subseteq Things
<1>1. T.cnt[g] \in Nat BY DEF TreeRecord
<1>2. \A i \in 1 .. T.cnt[g] - 1 : i \in Nat BY <1>1
<1>3. \A i \in Nat : Entry(g, i) \in Things BY DEF Entry, Things, Kinds, Names, Groups
<1>4. Set(g) \in Things /\ Array(g) \in Things
  BY DEF Set, Array, Things, Kinds, Names, Groups
<1>5. QED BY <1>2, <1>3, <1>4 DEF Whole, Members

LEMMA CleanupIs ==
    ASSUME NEW T \in TreeRecord, NEW g \in Groups, Array(g) \in T.held,
           Members(T, g) \subseteq T.held, NEW S, S = cleanup_objset(T, g)
    PROVE  /\ S \in TreeRecord /\ S.refs = T.refs /\ S.cnt = [T.cnt EXCEPT ![g] = 0]
           /\ S.held = T.held \ (Members(T, g) \cup {Array(g)}) /\ S.misused = T.misused
<1> DEFINE P == Put(T, Members(T, g))
           K == kfree(P, Array(g))
<1>1. Members(T, g) \in SUBSET Things BY GroupThings DEF Whole
<1>2. /\ P \in TreeRecord /\ P.refs = T.refs /\ P.cnt = T.cnt
      /\ P.held = T.held \ Members(T, g) /\ P.misused = T.misused
  <2>1. P = Put(T, Members(T, g)) OBVIOUS
  <2> HIDE DEF P
  <2>2. /\ P \in TreeRecord /\ P.refs = T.refs /\ P.cnt = T.cnt
        /\ P.held = T.held \ Members(T, g)
        /\ P.misused = T.misused \cup (Members(T, g) \ T.held)
    BY <1>1, <2>1, PutIs
  <2>3. QED BY <2>2
<1>3. S = [K EXCEPT !.cnt[g] = 0] BY DEF cleanup_objset, Members
<1> HIDE DEF P
<1>4. /\ K \in TreeRecord /\ K.refs = T.refs /\ K.cnt = T.cnt
      /\ K.held = (T.held \ Members(T, g)) \ {Array(g)} /\ K.misused = T.misused
  BY <1>2, KfreeIs
<1> HIDE DEF K
<1>5. QED BY <1>3, <1>4 DEF TreeRecord

LEMMA CleanGroupIs ==
    ASSUME NEW T \in TreeRecord, NEW g \in Groups, Neat(T, g), NEW S, S = CleanGroup(T, g)
    PROVE  /\ S \in TreeRecord /\ S.refs = T.refs /\ S.misused = T.misused
           /\ S.held = T.held \ Stuff(T, g)
           /\ \A h \in Groups \ {g} : S.cnt[h] = T.cnt[h]
<1>1. CASE Set(g) \in T.refs
  <2> DEFINE C == cleanup_objset(T, g)
  <2>1. Whole(T, g) \subseteq T.held BY <1>1 DEF Neat
  <2>2. /\ C \in TreeRecord /\ C.refs = T.refs /\ C.cnt = [T.cnt EXCEPT ![g] = 0]
        /\ C.held = T.held \ (Members(T, g) \cup {Array(g)}) /\ C.misused = T.misused
    BY <2>1, CleanupIs DEF Whole
  <2>3. S = Put(C, {Set(g)}) BY <1>1 DEF CleanGroup
  <2> HIDE DEF C
  <2>4. Set(g) \notin Members(T, g) \cup {Array(g)} BY DEF Set, Array, Members, Entry
  <2>5. Set(g) \in C.held BY <2>1, <2>2, <2>4 DEF Whole
  <2>6. {Set(g)} \in SUBSET Things BY GroupThings DEF Whole
  <2>7. /\ S \in TreeRecord /\ S.refs = C.refs /\ S.cnt = C.cnt
        /\ S.held = C.held \ {Set(g)} /\ S.misused = C.misused \cup ({Set(g)} \ C.held)
    BY <2>2, <2>3, <2>6, PutIs
  <2>8. S.misused = T.misused BY <2>2, <2>5, <2>7
  <2>9. S.held = T.held \ Whole(T, g) BY <2>2, <2>7 DEF Whole
  <2>10. \A h \in Groups \ {g} : S.cnt[h] = T.cnt[h] BY <2>2, <2>7 DEF TreeRecord
  <2>11. QED BY <1>1, <2>2, <2>7, <2>8, <2>9, <2>10 DEF Stuff
<1>2. CASE Set(g) \notin T.refs BY <1>2 DEF CleanGroup, Stuff
<1>3. QED BY <1>1, <1>2

(* All groups, and clean_up_sysfs as a whole. Stuff of one group is not    *)
(* touched by the clean-up of another.                                     *)
Cleaned(T) == UNION {Stuff(T, g) : g \in Groups}
FilterUnread == IF device.gpios < 4 THEN {Array("filter")} ELSE {}

LEMMA StuffApart ==
    ASSUME NEW T, NEW U, NEW g, NEW h, g # h PROVE Whole(T, g) \cap Whole(U, h) = {}
BY DEF Whole, Members, Set, Array, Entry

LEMMA NeatKept ==
    ASSUME NEW T \in TreeRecord, NEW S \in TreeRecord, NEW g, NEW h, g # h, Neat(T, h),
           S.refs = T.refs, S.cnt[h] = T.cnt[h], S.held = T.held \ Stuff(T, g)
    PROVE  Neat(S, h) /\ Stuff(S, h) = Stuff(T, h)
<1>1. Whole(S, h) = Whole(T, h) BY DEF Whole, Members
<1>2. Whole(T, h) \cap Stuff(T, g) = {} BY StuffApart DEF Stuff
<1>3. QED BY <1>1, <1>2 DEF Neat, Stuff

LEMMA CleanGroupsIs ==
    ASSUME NEW T \in TreeRecord, \A g \in Groups : Neat(T, g), NEW S, S = CleanGroups(T)
    PROVE  /\ S \in TreeRecord /\ S.refs = T.refs /\ S.misused = T.misused
           /\ S.held = T.held \ Cleaned(T)
<1> DEFINE A == CleanGroup(T, "gpio")
           B == CleanGroup(A, "port")
           C == CleanGroup(B, "phy")
<1>1. /\ "gpio" \in Groups /\ "port" \in Groups /\ "phy" \in Groups /\ "filter" \in Groups
      /\ \A g \in Groups : g = "gpio" \/ g = "port" \/ g = "phy" \/ g = "filter"
  BY DEF Groups
<1>2. /\ A \in TreeRecord /\ A.refs = T.refs /\ A.misused = T.misused
      /\ A.held = T.held \ Stuff(T, "gpio") /\ \A h \in Groups \ {"gpio"} : A.cnt[h] = T.cnt[h]
  BY <1>1, CleanGroupIs
<1>3. S = CleanGroup(C, "filter") BY DEF CleanGroups
<1> HIDE DEF A
<1>4. \A h \in {"port", "phy", "filter"} : Neat(A, h) /\ Stuff(A, h) = Stuff(T, h)
  BY <1>1, <1>2, NeatKept
<1>5. /\ B \in TreeRecord /\ B.refs = A.refs /\ B.misused = A.misused
      /\ B.held = A.held \ Stuff(A, "port") /\ \A h \in Groups \ {"port"} : B.cnt[h] = A.cnt[h]
  BY <1>1, <1>2, <1>4, CleanGroupIs
<1> HIDE DEF B
<1>6. \A h \in {"phy", "filter"} : Neat(B, h) /\ Stuff(B, h) = Stuff(A, h)
  BY <1>1, <1>2, <1>4, <1>5, NeatKept
<1>7. /\ C \in TreeRecord /\ C.refs = B.refs /\ C.misused = B.misused
      /\ C.held = B.held \ Stuff(B, "phy") /\ \A h \in Groups \ {"phy"} : C.cnt[h] = B.cnt[h]
  BY <1>1, <1>5, <1>6, CleanGroupIs
<1> HIDE DEF C
<1>8. Neat(C, "filter") /\ Stuff(C, "filter") = Stuff(B, "filter")
  BY <1>1, <1>5, <1>6, <1>7, NeatKept
<1>9. /\ S \in TreeRecord /\ S.refs = C.refs /\ S.misused = C.misused
      /\ S.held = C.held \ Stuff(C, "filter")
  BY <1>1, <1>3, <1>7, <1>8, CleanGroupIs
<1>10. Cleaned(T) = Stuff(T, "gpio") \cup Stuff(T, "port") \cup Stuff(T, "phy")
                      \cup Stuff(T, "filter")
  BY <1>1 DEF Cleaned
<1>11. S.held = T.held \ Cleaned(T) BY <1>2, <1>4, <1>5, <1>6, <1>7, <1>8, <1>9, <1>10
<1>12. QED BY <1>2, <1>5, <1>7, <1>9, <1>11

LEMMA RemoveFilesIs ==
    ASSUME NEW T \in TreeRecord, NEW S, S = remove_bin_files(T)
    PROVE  /\ S \in TreeRecord /\ S.refs = T.refs /\ S.cnt = T.cnt /\ S.held = T.held
           /\ S.misused \subseteq T.misused \cup (Dirs(T) \ T.held) \cup FilterUnread
<1> DEFINE X == Dirs(T) \cap {Dir("dev_info"), Dir("ident_info"), Dir("mbx")}
           U == Use(T, X)
<1>1. X \in SUBSET Things /\ X \subseteq Dirs(T) BY DEF Dirs, TreeRecord
<1> HIDE DEF X
<1>2. /\ U \in TreeRecord /\ U.refs = T.refs /\ U.cnt = T.cnt
      /\ U.held = T.held /\ U.misused = T.misused \cup (X \ T.held)
  BY <1>1, UseIs
<1>3. S = IF Array("filter") \in T.held /\ device.gpios < 4
          THEN [U EXCEPT !.misused = @ \cup {Array("filter")}] ELSE U
  BY DEF remove_bin_files, X
<1> HIDE DEF U
<1>4. Array("filter") \in Things BY DEF Array, Things, Kinds, Names, Groups
<1>5. CASE Array("filter") \in T.held /\ device.gpios < 4
  <2>1. S = [U EXCEPT !.misused = @ \cup {Array("filter")}] BY <1>3, <1>5
  <2>2. /\ S \in TreeRecord /\ S.refs = U.refs /\ S.cnt = U.cnt /\ S.held = U.held
        /\ S.misused = U.misused \cup {Array("filter")}
    BY <1>2, <1>4, <2>1 DEF TreeRecord
  <2>3. FilterUnread = {Array("filter")} BY <1>5 DEF FilterUnread
  <2>4. QED BY <1>1, <1>2, <2>2, <2>3
<1>6. CASE ~(Array("filter") \in T.held /\ device.gpios < 4)
  <2>1. S = U BY <1>3, <1>6
  <2>2. QED BY <1>1, <1>2, <2>1
<1>7. QED BY <1>5, <1>6

LEMMA CleanUpIs ==
    ASSUME NEW T \in TreeRecord, \A g \in Groups : Neat(T, g), NEW S, S = clean_up_sysfs(T)
    PROVE  /\ S \in TreeRecord
           /\ S.held = (T.held \ (Dirs(T) \cup Cleaned(T))) \ {FilterBuffers}
           /\ S.misused \subseteq T.misused \cup (Dirs(T) \ T.held) \cup FilterUnread
<1> DEFINE F == remove_bin_files(T)
           P == Put(F, Dirs(F))
           C == CleanGroups(P)
<1>1. S = kfree(C, FilterBuffers) BY DEF clean_up_sysfs
<1>2. /\ F \in TreeRecord /\ F.refs = T.refs /\ F.cnt = T.cnt /\ F.held = T.held
      /\ F.misused \subseteq T.misused \cup (Dirs(T) \ T.held) \cup FilterUnread
  BY RemoveFilesIs
<1> HIDE DEF F
<1>3. Dirs(F) = Dirs(T) /\ Dirs(F) \in SUBSET Things BY <1>2 DEF Dirs, TreeRecord
<1>4. /\ P \in TreeRecord /\ P.refs = F.refs /\ P.cnt = F.cnt
      /\ P.held = F.held \ Dirs(F) /\ P.misused = F.misused \cup (Dirs(F) \ F.held)
  BY <1>2, <1>3, PutIs
<1> HIDE DEF P
<1>5. \A g \in Groups : Whole(P, g) = Whole(T, g) /\ Whole(T, g) \cap Dirs(T) = {}
  <2> TAKE g \in Groups
  <2>1. Whole(P, g) = Whole(T, g) BY <1>2, <1>4 DEF Whole, Members
  <2>2. \A x \in Whole(T, g) : x[1] # "dir" BY DEF Whole, Members, Set, Array, Entry
  <2>3. QED BY <2>1, <2>2 DEF Dirs
<1>6. \A g \in Groups : Neat(P, g) /\ Stuff(P, g) = Stuff(T, g)
  BY <1>2, <1>3, <1>4, <1>5 DEF Neat, Stuff
<1>7. Cleaned(P) = Cleaned(T) BY <1>6 DEF Cleaned
<1>8. /\ C \in TreeRecord /\ C.refs = P.refs /\ C.misused = P.misused
      /\ C.held = P.held \ Cleaned(P)
  BY <1>4, <1>6, CleanGroupsIs
<1> HIDE DEF C
<1>9. S \in TreeRecord /\ S.held = C.held \ {FilterBuffers} /\ S.misused = C.misused
  BY <1>1, <1>8, KfreeIs
<1>10. QED BY <1>2, <1>3, <1>4, <1>7, <1>8, <1>9

(* The directories at the top, netana_free_dma and the error labels.       *)
LastTops == {Top("ctl_dir"), Top("conf_dir"), Top("hw_dir"), Top("dev_info_dir")}

LEMMA TopDirsIs ==
    ASSUME NEW T \in TreeRecord, NEW S, S = TopDirs(T)
    PROVE  /\ S \in TreeRecord /\ S.refs = T.refs /\ S.cnt = T.cnt
           /\ S.held = T.held \ LastTops /\ S.misused = T.misused
<1> DEFINE X == T.held \cap LastTops
<1>1. X \in SUBSET Things BY DEF TreeRecord
<1>2. S = Put(T, X) BY DEF TopDirs, LastTops
<1>3. X \subseteq T.held /\ T.held \ X = T.held \ LastTops OBVIOUS
<1> HIDE DEF X
<1>4. /\ S \in TreeRecord /\ S.refs = T.refs /\ S.cnt = T.cnt
      /\ S.held = T.held \ X /\ S.misused = T.misused \cup (X \ T.held)
  BY <1>1, <1>2, PutIs
<1>5. S.misused = T.misused BY <1>3, <1>4
<1>6. QED BY <1>3, <1>4, <1>5

(* netana_free_dma gives back what the pointers stand for that are set.    *)
DmaFreed == DmaThings \ unseen

LEMMA FreeDmaIs ==
    ASSUME NEW T \in TreeRecord, NEW S, S = netana_free_dma(T)
    PROVE  /\ S \in TreeRecord /\ S.refs = T.refs /\ S.cnt = T.cnt
           /\ S.held = T.held \ DmaFreed /\ S.misused = T.misused \cup (DmaFreed \ T.held)
<1>1. DmaFreed \in SUBSET Things
  BY TreeAssumption DEF DmaFreed, DmaThings, DmaMemory, DmaBuffer, DmaInfo, Top, Things,
     Kinds, Names
<1>2. S = Put(T, DmaFreed) BY DmaChunk DEF netana_free_dma, DmaFreed
<1>3. QED BY <1>1, <1>2, PutIs

LEMMA UnwindIs ==
    ASSUME NEW T \in TreeRecord, NEW S, S = Unwind(T)
    PROVE  S \in TreeRecord /\ S.held = T.held \ Frames /\ S.misused = T.misused
<1> DEFINE X == T.held \cap Frames
           P == Put(T, X)
<1>1. X \in SUBSET Things BY DEF TreeRecord
<1>2. S = [P EXCEPT !.refs = {}, !.cnt = NoTree.cnt] BY DEF Unwind
<1>3. X \subseteq T.held /\ T.held \ X = T.held \ Frames OBVIOUS
<1> HIDE DEF X
<1>4. P \in TreeRecord /\ P.held = T.held \ X /\ P.misused = T.misused \cup (X \ T.held)
  BY <1>1, PutIs
<1> HIDE DEF P
<1>5. NoTree.cnt \in [Groups -> Nat] BY DEF NoTree
<1>6. QED BY <1>2, <1>3, <1>4, <1>5 DEF TreeRecord

(* Which objects there are for a device.                                   *)
EntryCount(g) ==
    IF g = "gpio" THEN IF device.gpios = 0 THEN 0 ELSE device.gpios + 1
    ELSE IF g = "filter" THEN device.gpios ELSE device.ports
DirNames == InformationNames \cup ControlNames \cup {"drv_info", "timeout"}

LEMMA ShapeOf ==
    ASSUME Counted, NEW x \in TreeThings
    PROVE  \/ x \in Frames \/ x \in DmaThings \/ x \in LastTops
           \/ \E n \in DirNames : x = Dir(n)
           \/ \E g \in Groups : x = Set(g) /\ EntryCount(g) > 0
           \/ x = Array("filter") /\ device.gpios > 0
           \/ x = FilterBuffers /\ device.gpios > 0
           \/ \E g \in Groups : \E i \in Nat : x = Entry(g, i) /\ i < EntryCount(g)
           \/ \E g \in Groups : x = Absent(g)
<1>1. CASE x \in FirstFrames \cup {Frame(n) : n \in BringUpNames} BY <1>1, AllFrames
<1>2. CASE x \in DmaThings BY <1>2
<1>3. CASE x \in {Dir("drv_info")} \cup InformationThings \cup {Top("hw_dir")}
                   \cup {Top("conf_dir"), Dir("timeout")} \cup ControlThings
  BY <1>3 DEF InformationThings, ControlThings, LastTops, DirNames
<1>4. CASE x \in FilterThings(device.gpios)
  <2>1. device.gpios \in Nat /\ device.gpios # 0 BY <1>4 DEF Counted, FilterThings
  <2>2. "filter" \in Groups /\ EntryCount("filter") = device.gpios BY DEF Groups, EntryCount
  <2>3. CASE x \in {Set("filter"), Array("filter"), FilterBuffers} BY <2>1, <2>2, <2>3
  <2>4. CASE x \in {Entry("filter", i) : i \in 0 .. device.gpios - 1}
    <3>1. PICK i \in 0 .. device.gpios - 1 : x = Entry("filter", i) BY <2>4
    <3>2. i \in Nat /\ i < device.gpios BY <2>1
    <3>3. QED BY <2>2, <3>1, <3>2
  <2>5. QED BY <1>4, <2>1, <2>3, <2>4 DEF FilterThings
<1>5. CASE x \in GpioThings(device.gpios)
  <2>1. device.gpios \in Nat /\ device.gpios # 0 BY <1>5 DEF Counted, GpioThings
  <2>2. "gpio" \in Groups /\ EntryCount("gpio") = device.gpios + 1
    BY <2>1 DEF Groups, EntryCount
  <2>3. CASE x \in {Set("gpio")} BY <2>1, <2>2, <2>3
  <2>4. CASE x \in {Entry("gpio", i) : i \in 0 .. device.gpios}
    <3>1. PICK i \in 0 .. device.gpios : x = Entry("gpio", i) BY <2>4
    <3>2. i \in Nat /\ i < device.gpios + 1 BY <2>1
    <3>3. QED BY <2>2, <3>1, <3>2
  <2>5. QED BY <1>5, <2>1, <2>3, <2>4 DEF GpioThings
<1>6. ASSUME NEW g \in {"port", "phy"}, x \in PortThings(g, device.ports)
      PROVE  \/ \E h \in Groups : x = Set(h) /\ EntryCount(h) > 0
             \/ \E h \in Groups : \E i \in Nat : x = Entry(h, i) /\ i < EntryCount(h)
             \/ \E h \in Groups : x = Absent(h)
  <2>1. g \in Groups /\ EntryCount(g) = device.ports BY DEF Groups, EntryCount
  <2>2. CASE device.ports = 0 BY <1>6, <2>1, <2>2 DEF PortThings
  <2>3. CASE device.ports # 0
    <3>1. device.ports \in Nat BY DEF Counted
    <3>2. CASE x \in {Set(g)} BY <2>1, <2>3, <3>1, <3>2
    <3>3. CASE x \in {Entry(g, i) : i \in 0 .. device.ports - 1}
      <4>1. PICK i \in 0 .. device.ports - 1 : x = Entry(g, i) BY <3>3
      <4>2. i \in Nat /\ i < device.ports BY <3>1
      <4>3. QED BY <2>1, <4>1, <4>2
    <3>4. QED BY <1>6, <2>3, <3>2, <3>3 DEF PortThings
  <2>4. QED BY <2>2, <2>3
<1>7. QED BY <1>1, <1>2, <1>3, <1>4, <1>5, <1>6 DEF TreeThings, SysfsThings

LEMMA EntryInTree ==
    ASSUME Counted, NEW g \in Groups, NEW i \in Nat, i < EntryCount(g)
    PROVE  /\ Entry(g, i) \in TreeThings /\ Set(g) \in TreeThings
           /\ g = "filter" => FilterBuffers \in TreeThings /\ Array("filter") \in TreeThings
<1>1. device.gpios \in Nat /\ device.ports \in Nat BY DEF Counted
<1>2. CASE g = "filter"
  <2>1. device.gpios # 0 /\ i \in 0 .. device.gpios - 1 BY <1>1, <1>2 DEF EntryCount
  <2>2. QED BY <1>2, <2>1 DEF TreeThings, SysfsThings, FilterThings
<1>3. CASE g = "gpio"
  <2>1. device.gpios # 0 /\ i \in 0 .. device.gpios BY <1>1, <1>3 DEF EntryCount
  <2>2. QED BY <1>3, <2>1 DEF TreeThings, SysfsThings, GpioThings
<1>4. CASE g = "port" \/ g = "phy"
  <2>1. device.ports # 0 /\ i \in 0 .. device.ports - 1 BY <1>1, <1>4 DEF EntryCount
  <2>2. {Set(g)} \cup {Entry(g, k) : k \in 0 .. device.ports - 1} = PortThings(g, device.ports)
    BY <2>1 DEF PortThings
  <2>3. PortThings(g, device.ports) \subseteq TreeThings BY <1>4 DEF TreeThings, SysfsThings
  <2>4. QED BY <1>4, <2>1, <2>2, <2>3
<1>5. QED BY <1>2, <1>3, <1>4 DEF Groups

(* Objects built form a prefix: nothing of an earlier stage is missing.    *)
Prefix(P) ==
    /\ P \subseteq TreeThings
    /\ \A y \in P : \A z \in TreeThings : Stage(z) < Stage(y) => z \in P

LEMMA PastPrefix ==
    ASSUME Counted, NEW p \in 0 .. Len(Tree) PROVE Prefix(Past(p))
<1>1. Chunk(Tree, 0, 20) /\ Built(Tree) = TreeThings BY TreeChunk
<1>2. Tree \in Seq(Things) /\ Len(Tree) \in Nat BY <1>1 DEF Chunk
<1>3. Past(p) \subseteq TreeThings BY <1>1, <1>2 DEF Past, Built
<1>4. ASSUME NEW y \in Past(p), NEW z \in TreeThings, Stage(z) < Stage(y) PROVE z \in Past(p)
  <2>1. PICK i \in 1 .. p : y = Tree[i] BY DEF Past
  <2>2. PICK j \in 1 .. Len(Tree) : z = Tree[j] BY <1>1 DEF Built
  <2>3. i \in 1 .. Len(Tree) BY <1>2
  <2>4. CASE j <= p
    <3>1. j \in 1 .. p BY <2>4
    <3>2. QED BY <2>2, <3>1 DEF Past
  <2>5. CASE j > p
    <3>1. Before(y, z) BY <1>1, <2>1, <2>2, <2>3, <2>5 DEF Chunk
    <3>2. y \in Things /\ z \in Things BY <1>2, <2>1, <2>2, <2>3
    <3>3. Stage(y) \in Nat /\ Stage(z) \in Nat BY <3>2, StageNat
    <3>4. QED BY <1>4, <3>1, <3>3 DEF Before
  <2>6. QED BY <1>2, <2>4, <2>5
<1>5. QED BY <1>3, <1>4 DEF Prefix

LEMMA StageBounds ==
    ASSUME Counted
    PROVE  /\ \A x \in FirstFrames : Stage(x) = 0
           /\ \A x \in DmaThings : 1 <= Stage(x) /\ Stage(x) <= 4
           /\ \A x \in SysfsThings : 6 <= Stage(x)
           /\ \A n \in BringUpNames : Stage(Frame(n)) = 5
<1>1. \A x \in FirstFrames : Stage(x) = 0
  BY DEF FirstFrames, Stage, Frame, FrameStage
<1>2. \A x \in DmaThings : 1 <= Stage(x) /\ Stage(x) <= 4 BY DmaChunk DEF Built, Chunk
<1>3. \A x \in SysfsThings : 6 <= Stage(x) BY SysfsChunk DEF Built, Chunk
<1>4. \A n \in BringUpNames : Stage(Frame(n)) = 5
  BY DEF Stage, Frame, FrameStage, RegisterNames, PciNames, BringUpNames
<1>5. QED BY <1>1, <1>2, <1>3, <1>4

(* The tree when the objects of P were built and no failure was seen.      *)
(* attcnt is derived from the number of the last entry.                    *)
EntriesCounted(P, T, g) ==
    \/ T.cnt[g] = 0 /\ \A j \in Nat : Entry(g, j) \notin P
    \/ \E k \in Nat : /\ T.cnt[g] = Count(Entry(g, k))
                      /\ \A j \in Nat : Entry(g, j) \in P <=> j <= k
(* U are the objects whose failed creation was not seen: they, and what    *)
(* netana_create_dma gave back (DmaGone), are not held; what is given back *)
(* for the second time later on is named by Twice.                         *)
NoThreads == {Frame("thread")}
DmaGone(U) == IF U \subseteq NoThreads THEN {} ELSE DmaThings \ {Top("drv_info")}
Lost(U) == (U \cap NoThreads) \cup DmaGone(U)
Twice(U) == DmaGone(U) \ U
Unseen(P, U) ==
    /\ U \subseteq P /\ U \subseteq NoThreads \cup {DmaInfo(i) : i \in 1 .. DmaCnt}
    /\ U # {} => DmaThings \subseteq P
Withs(P) == UNION {With(x) : x \in P}
Referreds(P) == UNION {Referred(x) : x \in P}
AsBuilt(P, U, T) ==
    /\ T \in TreeRecord
    /\ T.held = Withs(P) \ Lost(U)
    /\ T.refs = Referreds(P)
    /\ T.misused \subseteq Twice(U)
    /\ \A g \in Groups : EntriesCounted(P, T, g)
    /\ Unseen(P, U)

LEMMA WithsAre ==
    ASSUME NEW P
    PROVE  /\ \A z : z \in Withs(P) <=> \E x \in P : z \in With(x)
           /\ \A z : z \in Referreds(P) <=> \E x \in P : z \in Referred(x)
BY DEF Withs, Referreds

LEMMA LostKinds ==
    ASSUME NEW U, NEW y \in Lost(U)
    PROVE  /\ y[1] \in {"frame", "buffer", "info", "infos", "top"}
           /\ y[2] \in {"thread", "dma", "dma_dir"}
BY DEF Lost, DmaGone, NoThreads, Frame, DmaThings, DmaMemory, DmaBuffer, DmaInfo, Top

LEMMA EntryStages ==
    ASSUME NEW g, NEW i
    PROVE  /\ Stage(Entry(g, i)) = EntryStage(g) /\ EntryStage(g) \in {12, 14, 16, 18}
           /\ Entry(g, i)[1] = "entry" /\ Entry(g, i)[2] = g /\ Entry(g, i)[3] = i
BY DEF Stage, Entry, EntryStage

(* When an entry is created, all before it exist and none after it.        *)
LEMMA EntriesInOrder ==
    ASSUME Counted, NEW p \in Nat, p < Len(Tree), NEW g \in Groups, NEW k \in Nat,
           Tree[p + 1] = Entry(g, k)
    PROVE  \A j \in Nat : Entry(g, j) \in Past(p) <=> j < k
<1> DEFINE x == Tree[p + 1]
<1>1. /\ x \in TreeThings
      /\ \A y \in Past(p) : y \in TreeThings /\ Before(y, x)
      /\ \A y \in TreeThings : y \in Past(p) \/ y = x \/ Before(x, y)
  BY CreationOrder
<1>2. x = Entry(g, k) OBVIOUS
<1> HIDE DEF x
<1>3. \A j \in Nat : /\ Before(Entry(g, j), x) <=> j < k
                     /\ Before(x, Entry(g, j)) <=> k < j
  <2>1. EntryStage(g) \in Nat /\ EntryStage(g) \notin Loose BY DEF EntryStage, Loose
  <2>2. QED BY <1>2, <2>1, EntryStages DEF Before
<1>4. k < EntryCount(g)
  <2>1. \/ x \in Frames \/ x \in DmaThings \/ x \in LastTops
        \/ \E n \in DirNames : x = Dir(n)
        \/ \E h \in Groups : x = Set(h) /\ EntryCount(h) > 0
        \/ x = Array("filter") /\ device.gpios > 0
        \/ x = FilterBuffers /\ device.gpios > 0
        \/ \E h \in Groups : \E i \in Nat : x = Entry(h, i) /\ i < EntryCount(h)
        \/ \E h \in Groups : x = Absent(h)
    BY <1>1, ShapeOf
  <2>2. x[1] = "entry" /\ x[2] = g /\ x[3] = k BY <1>2, EntryStages
  <2>3. x \notin Frames /\ x \notin DmaThings /\ x \notin LastTops
    BY <2>2, AllFrames DEF FirstFrames, Frame, DmaThings, DmaMemory, DmaBuffer, DmaInfo, Top, LastTops
  <2>4. PICK h \in Groups, i \in Nat : x = Entry(h, i) /\ i < EntryCount(h)
    BY <2>1, <2>2, <2>3 DEF Dir, Set, Array, FilterBuffers, Absent
  <2>5. h = g /\ i = k
    <3>1. Entry(h, i)[2] = h /\ Entry(h, i)[3] = i BY EntryStages
    <3>2. QED BY <2>2, <2>4, <3>1
  <2>6. QED BY <2>4, <2>5
<1>5. ASSUME NEW j \in Nat, j < k PROVE Entry(g, j) \in Past(p)
  <2>1. EntryCount(g) \in Nat BY DEF EntryCount, Counted
  <2>2. j < EntryCount(g) BY <1>4, <1>5, <2>1
  <2>3. Entry(g, j) \in TreeThings BY <2>2, EntryInTree
  <2>4. Entry(g, j) # x BY <1>2, <1>5, EntryStages
  <2>5. ~Before(x, Entry(g, j)) BY <1>3, <1>5
  <2>6. QED BY <1>1, <2>3, <2>4, <2>5
<1>6. QED BY <1>1, <1>3, <1>5

(* A creation that succeeds.                                               *)
Created(T, x) == [T EXCEPT !.held = @ \cup With(x), !.refs = @ \cup Referred(x),
                           !.cnt = IF x[1] = "entry" THEN [@ EXCEPT ![x[2]] = Count(x)] ELSE @]

LEMMA WithType ==
    ASSUME NEW x \in Things PROVE With(x) \subseteq Things /\ Referred(x) \subseteq Things
<1>1. PICK k \in Kinds, n \in Names, i \in Nat : x = <<k, n, i>> BY DEF Things
<1>2. Array(n) \in Things /\ x[2] = n BY <1>1 DEF Array, Things, Kinds
<1>3. InfoMemory \in Things /\ Set("filter") \in Things
  BY DEF InfoMemory, Set, Things, Kinds, Names, InformationNames, Groups
<1>4. With(x) \subseteq Things BY <1>2, <1>3 DEF With
<1>5. Referred(x) \subseteq Things BY <1>3 DEF Referred
<1>6. QED BY <1>4, <1>5

LEMMA EntryShape ==
    ASSUME Counted, NEW x \in TreeThings, x[1] = "entry"
    PROVE  \E g \in Groups : \E i \in Nat : x = Entry(g, i) /\ i < EntryCount(g)
<1>1. x \notin Frames /\ x \notin DmaThings /\ x \notin LastTops
  BY AllFrames DEF FirstFrames, Frame, DmaThings, DmaMemory, DmaBuffer, DmaInfo, Top, LastTops
<1>2. QED BY <1>1, ShapeOf DEF Dir, Set, Array, FilterBuffers, Absent

(* A failure that was not seen is one of an object that is past.           *)
LEMMA NewNotLost ==
    ASSUME Counted, NEW p \in Nat, p < Len(Tree), NEW x, x = Tree[p + 1], NEW U,
           Unseen(Past(p), U)
    PROVE  /\ x \in DmaThings => U = {}
           /\ x \notin Lost(U)
<1>1. \A y \in Past(p) : Before(y, x) BY CreationOrder
<1>2. x \in TreeThings BY CreationOrder
<1>3. Stage(x) \in Nat BY <1>2, TreeThingsType, StageNat
<1>4. ASSUME x \in DmaThings, U # {} PROVE FALSE
  <2>1. DmaThings \subseteq Past(p) BY <1>4 DEF Unseen
  <2>2. Before(Top("dma_dir"), x) /\ Before(x, x)
    <3>1. Top("dma_dir") \in Past(p) BY <2>1 DEF DmaThings
    <3>2. QED BY <1>1, <1>4, <2>1, <3>1
  <2>3. Stage(Top("dma_dir")) = 2 BY DEF Stage, Top, TopStage
  <2>4. 2 <= Stage(x) BY <1>3, <2>2, <2>3 DEF Before
  <2>5. Stage(x) <= 4 BY <1>4, DmaChunk DEF Built, Chunk
  <2>6. Stage(x) \notin Loose BY <1>3, <2>4, <2>5 DEF Loose
  <2>7. x[3] \in Nat BY <1>2, TreeThingsType DEF Things
  <2>8. QED BY <1>3, <2>2, <2>6, <2>7 DEF Before
<1>5. ASSUME x \in U, x = Frame("thread") PROVE FALSE
  <2>1. p = Len(BeforeThread) /\ Past(p) = FirstFrames \cup DmaThings BY <1>5, ThreadPlace
  <2>2. x \in FirstFrames \cup DmaThings BY <1>5, <2>1 DEF Unseen
  <2>3. x[1] = "frame" /\ x[2] = "thread" BY <1>5 DEF Frame
  <2>4. QED
    BY <2>2, <2>3 DEF FirstFrames, Frame, PciNames, RegisterNames, DmaThings, DmaMemory,
       DmaBuffer, DmaInfo, Top
<1>6. ASSUME x \in Lost(U) PROVE FALSE
  <2>1. CASE x \in U \cap NoThreads BY <1>5, <2>1 DEF NoThreads
  <2>2. CASE x \in DmaGone(U) BY <1>4, <2>2 DEF DmaGone, NoThreads
  <2>3. QED BY <1>6, <2>1, <2>2 DEF Lost
<1>7. QED BY <1>4, <1>6

LEMMA WithKinds ==
    ASSUME NEW x, NEW U, x \notin Lost(U) PROVE With(x) \cap Lost(U) = {}
<1> SUFFICES ASSUME NEW y \in With(x), y \in Lost(U) PROVE FALSE OBVIOUS
<1>1. y[1] # "array" /\ y[1] # "memory" BY LostKinds
<1>2. y = x BY <1>1 DEF With, Array, InfoMemory
<1>3. QED BY <1>2

LEMMA CreateKeeps ==
    ASSUME Counted, NEW p \in Nat, p < Len(Tree), NEW x, x = Tree[p + 1], NEW T, NEW U,
           AsBuilt(Past(p), U, T), NEW S, S = Created(T, x)
    PROVE  AsBuilt(Past(p + 1), U, S)
<1>a. /\ Unseen(Past(p), U) /\ T.misused \subseteq Twice(U)
      /\ T.held = Withs(Past(p)) \ Lost(U)
      /\ T.refs = Referreds(Past(p))
  BY DEF AsBuilt
<1>b. With(x) \cap Lost(U) = {} BY <1>a, NewNotLost, WithKinds
<1>c. Unseen(Past(p + 1), U) BY <1>a, CreationOrder DEF Unseen
<1>d. /\ T.held \cup With(x) = Withs(Past(p + 1)) \ Lost(U)
      /\ T.refs \cup Referred(x) = Referreds(Past(p + 1))
  <2>1. Past(p + 1) = Past(p) \cup {x} BY CreationOrder
  <2>2. Withs(Past(p + 1)) = Withs(Past(p)) \cup With(x) BY <2>1, WithsAre
  <2>3. Referreds(Past(p + 1)) = Referreds(Past(p)) \cup Referred(x)
    BY <2>1, WithsAre
  <2>4. QED BY <1>a, <1>b, <2>2, <2>3
<1>1. /\ x \in TreeThings /\ Past(p + 1) = Past(p) \cup {x} BY CreationOrder
<1>2. x \in Things BY <1>1, TreeThingsType
<1>3. T \in TreeRecord BY DEF AsBuilt
<1>4. With(x) \subseteq Things /\ Referred(x) \subseteq Things BY <1>2, WithType
<1>5. CASE x[1] = "entry"
  <2>1. PICK g \in Groups, k \in Nat : x = Entry(g, k) BY <1>1, <1>5, EntryShape
  <2>2. x[2] = g /\ x[3] = k BY <2>1, EntryStages
  <2>3. Count(x) \in Nat BY <2>2 DEF Count
  <2> DEFINE c == Count(x)
  <2>4. S = [T EXCEPT !.held = @ \cup With(x), !.refs = @ \cup Referred(x),
                      !.cnt = [T.cnt EXCEPT ![g] = c]]
    BY <1>5, <2>2 DEF Created
  <2>5. c \in Nat BY <2>3
  <2> HIDE DEF c
  <2>6. /\ S \in TreeRecord /\ S.held = T.held \cup With(x) /\ S.refs = T.refs \cup Referred(x)
        /\ S.misused = T.misused /\ S.cnt = [T.cnt EXCEPT ![g] = c]
    <3> DEFINE n == [T.cnt EXCEPT ![g] = c]
    <3>1. n \in [Groups -> Nat] BY <1>3, <2>5 DEF TreeRecord
    <3>2. S = [T EXCEPT !.held = T.held \cup With(x), !.refs = T.refs \cup Referred(x), !.cnt = n]
      BY <2>4
    <3> HIDE DEF n
    <3>3. /\ S \in TreeRecord /\ S.held = T.held \cup With(x)
          /\ S.refs = T.refs \cup Referred(x) /\ S.misused = T.misused /\ S.cnt = n
      BY <1>3, <1>4, <3>1, <3>2 DEF TreeRecord
    <3>4. QED BY <3>3 DEF n
  <2>7. /\ S.cnt[g] = c /\ \A h \in Groups \ {g} : S.cnt[h] = T.cnt[h]
    BY <1>3, <2>6 DEF TreeRecord
  <2>8. EntriesCounted(Past(p + 1), S, g)
    <3>1. \A j \in Nat : Entry(g, j) \in Past(p) <=> j < k BY <2>1, EntriesInOrder
    <3>2. \A j \in Nat : Entry(g, j) = x <=> j = k BY <2>1, EntryStages
    <3>3. \A j \in Nat : Entry(g, j) \in Past(p + 1) <=> j <= k BY <1>1, <3>1, <3>2
    <3>4. S.cnt[g] = Count(Entry(g, k)) BY <2>1, <2>7 DEF c
    <3>5. QED BY <3>3, <3>4 DEF EntriesCounted
  <2>9. ASSUME NEW h \in Groups \ {g} PROVE EntriesCounted(Past(p + 1), S, h)
    <3>1. \A j \in Nat : Entry(h, j) # x BY <2>1, EntryStages
    <3>2. EntriesCounted(Past(p), T, h) BY DEF AsBuilt
    <3>3. \A j \in Nat : Entry(h, j) \in Past(p + 1) <=> Entry(h, j) \in Past(p)
      BY <1>1, <3>1
    <3>4. QED BY <2>7, <3>2, <3>3 DEF EntriesCounted
  <2>10. QED BY <1>a, <1>c, <1>d, <2>6, <2>8, <2>9 DEF AsBuilt
<1>6. CASE x[1] # "entry"
  <2>1. S = [T EXCEPT !.held = @ \cup With(x), !.refs = @ \cup Referred(x), !.cnt = T.cnt]
    BY <1>6 DEF Created
  <2>2. /\ S \in TreeRecord /\ S.held = T.held \cup With(x) /\ S.refs = T.refs \cup Referred(x)
        /\ S.misused = T.misused /\ S.cnt = T.cnt
    BY <1>3, <1>4, <2>1 DEF TreeRecord
  <2>3. ASSUME NEW h \in Groups PROVE EntriesCounted(Past(p + 1), S, h)
    <3>1. \A j \in Nat : Entry(h, j) # x BY <1>6, EntryStages
    <3>2. EntriesCounted(Past(p), T, h) BY DEF AsBuilt
    <3>3. \A j \in Nat : Entry(h, j) \in Past(p + 1) <=> Entry(h, j) \in Past(p)
      BY <1>1, <3>1
    <3>4. QED BY <2>2, <3>2, <3>3 DEF EntriesCounted
  <2>4. QED BY <1>a, <1>c, <1>d, <2>2, <2>3 DEF AsBuilt
<1>7. QED BY <1>5, <1>6

(* What is referred to is held: directories, and the sets of the groups    *)
(* with all that cleanup_objset gives back.                                *)
LEMMA BuiltDirs ==
    ASSUME NEW P, NEW U, NEW T, AsBuilt(P, U, T) PROVE Dirs(T) \subseteq T.held
<1> SUFFICES ASSUME NEW x \in Dirs(T) PROVE x \in T.held OBVIOUS
<1>1. x \in T.refs /\ x[1] = "dir" BY DEF Dirs
<1>2. PICK z \in P : x \in Referred(z) BY <1>1, WithsAre DEF AsBuilt
<1>3. x # Set("filter") BY <1>1 DEF Set
<1>4. x = z BY <1>2, <1>3 DEF Referred
<1>5. x \in With(z) BY <1>4 DEF With
<1>6. x \notin Lost(U) BY <1>1, LostKinds
<1>7. QED BY <1>5, <1>6, WithsAre DEF AsBuilt

LEMMA BuiltRefs ==
    ASSUME NEW P, NEW U, NEW T, AsBuilt(P, U, T), NEW g \in Groups
    PROVE  Set(g) \in T.refs <=> IF g = "filter" THEN FilterBuffers \in P ELSE Set(g) \in P
<1>1. Set(g)[1] = "set" /\ Set(g)[2] = g BY DEF Set
<1>2. ASSUME Set(g) \in T.refs
      PROVE  IF g = "filter" THEN FilterBuffers \in P ELSE Set(g) \in P
  <2>1. PICK z \in P : Set(g) \in Referred(z) BY <1>2, WithsAre DEF AsBuilt
  <2>2. CASE z[1] = "dir" \/ (z[1] = "set" /\ z[2] # "filter")
    <3>1. z = Set(g) BY <2>1, <2>2 DEF Referred
    <3>2. QED BY <1>1, <2>2, <3>1
  <2>3. CASE ~(z[1] = "dir" \/ (z[1] = "set" /\ z[2] # "filter"))
    <3>1. z = FilterBuffers /\ Set(g) = Set("filter") BY <2>1, <2>3 DEF Referred
    <3>2. g = "filter" BY <3>1 DEF Set
    <3>3. QED BY <3>1, <3>2
  <2>4. QED BY <2>2, <2>3
<1>3. ASSUME g = "filter", FilterBuffers \in P PROVE Set(g) \in T.refs
  <2>1. Set("filter") \in Referred(FilterBuffers) BY DEF Referred, FilterBuffers
  <2>2. QED BY <1>3, <2>1, WithsAre DEF AsBuilt
<1>4. ASSUME g # "filter", Set(g) \in P PROVE Set(g) \in T.refs
  <2>1. Set(g) \in Referred(Set(g)) BY <1>1, <1>4 DEF Referred
  <2>2. QED BY <1>4, <2>1, WithsAre DEF AsBuilt
<1>5. QED BY <1>2, <1>3, <1>4

LEMMA FilterStages ==
    /\ Stage(Set("filter")) = 9 /\ Stage(Array("filter")) = 10 /\ Stage(FilterBuffers) = 11
    /\ EntryStage("filter") = 12
    /\ \A g \in Groups : Stage(Set(g)) = SetStage(g) /\ SetStage(g) < EntryStage(g)
    /\ \A g \in Groups : SetStage(g) \in Nat
BY DEF Set, Array, FilterBuffers, Stage, SetStage, EntryStage, Groups

(* A device has the filters' set, array and buffers together, and an entry *)
(* has its set before it.                                                  *)
LEMMA FilterInTree ==
    ASSUME Counted, FilterBuffers \in TreeThings \/ Set("filter") \in TreeThings
                      \/ Array("filter") \in TreeThings
    PROVE  /\ FilterBuffers \in TreeThings /\ Set("filter") \in TreeThings
           /\ Array("filter") \in TreeThings /\ device.gpios > 0
<1>1. ASSUME NEW x \in TreeThings,
             x = FilterBuffers \/ x = Set("filter") \/ x = Array("filter")
      PROVE  device.gpios > 0
  <2>1. x[1] \in {"set", "array", "values"} /\ x[2] = "filter"
    BY <1>1 DEF FilterBuffers, Set, Array
  <2>2. x \notin Frames /\ x \notin DmaThings /\ x \notin LastTops
    BY <2>1, AllFrames DEF FirstFrames, Frame, DmaThings, DmaMemory, DmaBuffer, DmaInfo, Top, LastTops
  <2>3. \A g \in Groups : x = Set(g) /\ EntryCount(g) > 0 => device.gpios > 0
    BY <2>1 DEF Set, EntryCount
  <2>4. QED BY <2>1, <2>2, <2>3, ShapeOf DEF Dir, Entry, Absent
<1>2. device.gpios > 0 BY <1>1
<1>3. device.gpios # 0 BY <1>2
<1>4. QED BY <1>2, <1>3 DEF TreeThings, SysfsThings, FilterThings

LEMMA EntryReferred ==
    ASSUME Counted, NEW P, Prefix(P), NEW U, NEW T, AsBuilt(P, U, T), NEW g \in Groups,
           NEW i \in Nat,
           Entry(g, i) \in P
    PROVE  Set(g) \in T.refs
<1>1. Entry(g, i) \in TreeThings BY DEF Prefix
<1>2. PICK h \in Groups, k \in Nat : Entry(g, i) = Entry(h, k) /\ k < EntryCount(h)
  BY <1>1, EntryShape, EntryStages
<1>3. i < EntryCount(g)
  <2>1. h = g /\ k = i
    <3>1. Entry(g, i)[2] = g /\ Entry(g, i)[3] = i BY EntryStages
    <3>2. Entry(h, k)[2] = h /\ Entry(h, k)[3] = k BY EntryStages
    <3>3. QED BY <1>2, <3>1, <3>2
  <2>2. QED BY <1>2, <2>1
<1>4. /\ Set(g) \in TreeThings
      /\ g = "filter" => FilterBuffers \in TreeThings
  BY <1>3, EntryInTree
<1>5. Stage(Set(g)) < Stage(Entry(g, i)) BY FilterStages, EntryStages
<1>6. g = "filter" => Stage(FilterBuffers) < Stage(Entry(g, i)) BY FilterStages, EntryStages
<1>7. Set(g) \in P /\ (g = "filter" => FilterBuffers \in P) BY <1>4, <1>5, <1>6 DEF Prefix
<1>8. QED BY <1>7, BuiltRefs

LEMMA BuiltNeat ==
    ASSUME Counted, NEW P, Prefix(P), NEW U, NEW T, AsBuilt(P, U, T), NEW g \in Groups
    PROVE  Neat(T, g)
<1> SUFFICES ASSUME Set(g) \in T.refs PROVE Whole(T, g) \subseteq T.held BY DEF Neat
<1>1. \A x \in P : With(x) \ Lost(U) \subseteq T.held /\ x \in With(x)
  BY WithsAre DEF AsBuilt, With
<1>0. Whole(T, g) \cap Lost(U) = {}
  <2> SUFFICES ASSUME NEW y \in Whole(T, g), y \in Lost(U) PROVE FALSE OBVIOUS
  <2>1. y[1] \in {"set", "array", "entry"} BY DEF Whole, Members, Set, Array, Entry
  <2>2. QED BY <2>1, LostKinds
<1>2. Set(g) \in T.held /\ Array(g) \in T.held
  <2>1. CASE g = "filter"
    <3>1. FilterBuffers \in P /\ FilterBuffers \in TreeThings BY <2>1, BuiltRefs DEF Prefix
    <3>2. Set("filter") \in TreeThings /\ Array("filter") \in TreeThings
      BY <3>1, FilterInTree
    <3>3. Set("filter") \in P /\ Array("filter") \in P
      BY <3>1, <3>2, FilterStages DEF Prefix
    <3>4. QED BY <1>1, <1>0, <2>1, <3>3 DEF Whole
  <2>2. CASE g # "filter"
    <3>1. Set(g) \in P BY <2>2, BuiltRefs
    <3>2. Array(g) \in With(Set(g)) BY <2>2 DEF With, Set
    <3>3. QED BY <1>1, <1>0, <3>1, <3>2 DEF Whole
  <2>3. QED BY <2>1, <2>2
<1>3. ASSUME NEW y \in Members(T, g) PROVE y \in T.held
  <2>1. PICK i \in 1 .. T.cnt[g] - 1 : y = Entry(g, i) BY DEF Members
  <2>2. T.cnt[g] \in Nat BY DEF AsBuilt, TreeRecord
  <2>3. EntriesCounted(P, T, g) BY DEF AsBuilt
  <2>4. T.cnt[g] # 0 /\ i \in Nat BY <2>1, <2>2
  <2>5. PICK k \in Nat : /\ T.cnt[g] = Count(Entry(g, k))
                         /\ \A j \in Nat : Entry(g, j) \in P <=> j <= k
    BY <2>3, <2>4 DEF EntriesCounted
  <2>6. Count(Entry(g, k)) <= k + 1 BY EntryStages DEF Count
  <2>7. i <= k BY <2>1, <2>2, <2>5, <2>6
  <2>8. Entry(g, i) \in P BY <2>4, <2>5, <2>7
  <2>9. QED BY <1>1, <1>0, <2>1, <2>8 DEF Whole
<1>4. QED BY <1>2, <1>3 DEF Whole

(* What no function gives back: entry 0, which the loop of cleanup_objset  *)
(* leaves out, the memory of device_info, the last GPIO while attcnt       *)
(* leaves out the voltage, and the filters' set and array while            *)
(* netana_info does not point to them.                                     *)
Rest(T) == T.held \ (Dirs(T) \cup Cleaned(T) \cup {FilterBuffers} \cup LastTops
                       \cup DmaFreed \cup Frames)
GpioRest(P) == IF Entry("gpio", device.gpios) \in P THEN {}
               ELSE {Entry("gpio", i) : i \in 1 .. device.gpios - 1}
FilterRest(P) == IF FilterBuffers \in P THEN {} ELSE P \cap {Set("filter"), Array("filter")}

LEMMA BuiltRest ==
    ASSUME Counted, NEW P, Prefix(P), NEW T, AsBuilt(P, unseen, T),
           \A x \in P : x[1] # "absent"
    PROVE  Rest(T) \subseteq FirstEntries \cup {InfoMemory} \cup GpioRest(P) \cup FilterRest(P)
<1> SUFFICES ASSUME NEW y \in Rest(T)
             PROVE  y \in FirstEntries \cup {InfoMemory} \cup GpioRest(P) \cup FilterRest(P)
  OBVIOUS
<1>1. y \in T.held /\ y \notin Dirs(T) /\ y # FilterBuffers /\ y \notin LastTops
      /\ y \notin DmaThings /\ y \notin Frames /\ \A g \in Groups : y \notin Stuff(T, g)
  <2>1. /\ y \in T.held /\ y \notin Dirs(T) /\ y # FilterBuffers /\ y \notin LastTops
        /\ y \notin DmaFreed /\ y \notin Frames /\ \A g \in Groups : y \notin Stuff(T, g)
    BY DEF Rest, Cleaned
  <2>2. ASSUME y \in DmaThings PROVE FALSE
    <3>1. y \in unseen BY <2>1, <2>2 DEF DmaFreed
    <3>2. y \notin Lost(unseen) BY <2>1 DEF AsBuilt
    <3>3. y \notin NoThreads BY <3>1, <3>2 DEF Lost
    <3>4. y \in {DmaInfo(i) : i \in 1 .. DmaCnt} BY <3>1, <3>3 DEF AsBuilt, Unseen
    <3>5. y # Top("drv_info") BY <3>4 DEF DmaInfo, Top
    <3>6. y \in DmaGone(unseen) BY <2>2, <3>1, <3>3, <3>5 DEF DmaGone
    <3>7. QED BY <3>2, <3>6 DEF Lost
  <2>3. QED BY <2>1, <2>2
<1>2. PICK z \in P : y \in With(z) BY <1>1, WithsAre DEF AsBuilt
<1>3. z \in TreeThings BY DEF Prefix
<1>4. z[1] # "absent" OBVIOUS
<1>5. CASE z \in Frames \/ z \in DmaThings \/ z \in LastTops \/ z = FilterBuffers
  <2>1. z[1] # "set" /\ z # Dir("dev_info")
    BY <1>5, AllFrames DEF FirstFrames, Frame, DmaThings, DmaMemory, DmaBuffer, DmaInfo, Top, LastTops,
       FilterBuffers, Dir
  <2>2. y = z BY <1>2, <2>1 DEF With
  <2>3. QED BY <1>1, <1>5, <2>2
<1>6. CASE \E n \in DirNames : z = Dir(n)
  <2>1. z[1] = "dir" BY <1>6 DEF Dir
  <2>2. y = z \/ y = InfoMemory BY <1>2, <2>1 DEF With
  <2>3. z \in Referred(z) BY <2>1 DEF Referred
  <2>4. z \in Dirs(T) BY <2>1, <2>3, WithsAre DEF Dirs, AsBuilt
  <2>5. QED BY <1>1, <2>2, <2>4
<1>7. CASE \E g \in Groups : z = Set(g) /\ EntryCount(g) > 0
  <2>1. PICK g \in Groups : z = Set(g) BY <1>7
  <2>2. z[1] = "set" /\ z[2] = g BY <2>1 DEF Set
  <2>3. CASE g # "filter"
    <3>1. Set(g) \in T.refs BY <2>1, <2>3, BuiltRefs
    <3>2. y = Set(g) \/ y = Array(g) BY <1>2, <2>1, <2>2 DEF With, Dir
    <3>3. y \in Stuff(T, g) BY <3>1, <3>2 DEF Stuff, Whole
    <3>4. QED BY <1>1, <3>3
  <2>4. CASE g = "filter"
    <3>1. y = Set("filter") BY <1>2, <2>1, <2>2, <2>4 DEF With, Dir
    <3>2. FilterBuffers \notin P
      <4>1. SUFFICES ASSUME FilterBuffers \in P PROVE FALSE OBVIOUS
      <4>2. Set("filter") \in T.refs BY <2>4, <4>1, BuiltRefs
      <4>3. y \in Stuff(T, g) BY <2>4, <3>1, <4>2 DEF Stuff, Whole
      <4>4. QED BY <1>1, <4>3
    <3>3. QED BY <2>1, <2>4, <3>1, <3>2 DEF FilterRest
  <2>5. QED BY <2>3, <2>4
<1>8. CASE z = Array("filter")
  <2>1. y = z BY <1>2, <1>8 DEF With, Array, Dir
  <2>2. FilterBuffers \notin P
    <3>1. SUFFICES ASSUME FilterBuffers \in P PROVE FALSE OBVIOUS
    <3>2. "filter" \in Groups BY DEF Groups
    <3>3. Set("filter") \in T.refs BY <3>1, <3>2, BuiltRefs
    <3>4. y \in Stuff(T, "filter") BY <1>8, <2>1, <3>3 DEF Stuff, Whole
    <3>5. QED BY <1>1, <3>2, <3>4
  <2>3. QED BY <1>8, <2>1, <2>2 DEF FilterRest
<1>9. CASE \E g \in Groups : \E i \in Nat : z = Entry(g, i) /\ i < EntryCount(g)
  <2>1. PICK g \in Groups, i \in Nat : z = Entry(g, i) /\ i < EntryCount(g) BY <1>9
  <2>2. z[1] = "entry" BY <2>1, EntryStages
  <2>3. y = z BY <1>2, <2>2 DEF With, Dir
  <2>4. Set(g) \in T.refs BY <2>1, EntryReferred
  <2>5. PICK k \in Nat : /\ T.cnt[g] = Count(Entry(g, k))
                         /\ \A j \in Nat : Entry(g, j) \in P <=> j <= k
    <3>1. EntriesCounted(P, T, g) BY DEF AsBuilt
    <3>2. QED BY <2>1, <3>1 DEF EntriesCounted
  <2>6. i <= k BY <2>1, <2>5
  <2>7. ~(i \in 1 .. T.cnt[g] - 1)
    <3>1. SUFFICES ASSUME i \in 1 .. T.cnt[g] - 1 PROVE FALSE OBVIOUS
    <3>2. y \in Stuff(T, g) BY <2>1, <2>3, <2>4, <3>1 DEF Stuff, Whole, Members
    <3>3. QED BY <1>1, <3>2
  <2>8. CASE i = 0 BY <2>1, <2>3, <2>8 DEF FirstEntries
  <2>9. CASE i # 0
    <3>1. T.cnt[g] \in Nat /\ ~(i <= T.cnt[g] - 1)
      <4>1. T.cnt[g] \in Nat BY DEF AsBuilt, TreeRecord
      <4>2. QED BY <2>7, <2>9, <4>1
    <3>2. /\ Entry(g, k)[2] = g /\ Entry(g, k)[3] = k BY EntryStages
    <3>3. Count(Entry(g, k)) = k /\ g = "gpio" /\ k < device.gpios /\ i = k
      BY <2>5, <2>6, <3>1, <3>2 DEF Count
    <3>4. Entry("gpio", device.gpios) \notin P BY <2>5, <3>3 DEF Counted
    <3>5. i \in 1 .. device.gpios - 1 BY <2>9, <3>3 DEF Counted
    <3>6. QED BY <2>1, <2>3, <3>3, <3>4, <3>5 DEF GpioRest
  <2>10. QED BY <2>8, <2>9
<1>10. ~ \E g \in Groups : z = Absent(g) BY <1>4 DEF Absent
<1>11. QED BY <1>3, <1>5, <1>6, <1>7, <1>8, <1>9, <1>10, ShapeOf

(* The error path of a whole probe (clean_up_sysfs, then DMA) and the      *)
(* removal (DMA, then clean_up_sysfs) come to the same.                    *)
LEMMA DmaApart ==
    ASSUME NEW T \in TreeRecord, NEW x \in DmaThings
    PROVE  /\ x \notin Dirs(T) /\ x \notin Cleaned(T) /\ x # FilterBuffers /\ x \notin LastTops
           /\ x \notin Frames
<1>1. x[1] \in {"buffer", "info", "infos", "top"} /\ x[2] \in {"dma", "dma_dir", "drv_info"}
  BY DEF DmaThings, DmaMemory, DmaBuffer, DmaInfo, Top
<1>2. \A g \in Groups : x \notin Whole(T, g)
  BY <1>1 DEF Whole, Members, Set, Array, Entry
<1>3. x \notin Cleaned(T) BY <1>2 DEF Cleaned, Stuff
<1>4. x \notin Frames BY <1>1, AllFrames DEF FirstFrames, Frame
<1>5. x \notin LastTops BY <1>1 DEF LastTops, Top
<1>6. QED BY <1>1, <1>3, <1>4, <1>5 DEF Dirs, FilterBuffers

LEMMA ProbeUnwound ==
    ASSUME NEW T \in TreeRecord, \A g \in Groups : Neat(T, g),
           NEW R, R = Unwind(netana_free_dma(TopDirs(clean_up_sysfs(T))))
    PROVE  /\ R \in TreeRecord /\ R.held = Rest(T)
           /\ R.misused \subseteq T.misused \cup (Dirs(T) \ T.held) \cup FilterUnread
                                    \cup (DmaFreed \ T.held)
<1> DEFINE C == clean_up_sysfs(T)
           D == TopDirs(C)
           F == netana_free_dma(D)
<1>1. R = Unwind(F) OBVIOUS
<1>2. /\ C \in TreeRecord
      /\ C.held = (T.held \ (Dirs(T) \cup Cleaned(T))) \ {FilterBuffers}
      /\ C.misused \subseteq T.misused \cup (Dirs(T) \ T.held) \cup FilterUnread
  BY CleanUpIs
<1> HIDE DEF C
<1>3. D \in TreeRecord /\ D.held = C.held \ LastTops /\ D.misused = C.misused
  BY <1>2, TopDirsIs
<1> HIDE DEF D
<1>4. /\ F \in TreeRecord /\ F.held = D.held \ DmaFreed
      /\ F.misused = D.misused \cup (DmaFreed \ D.held)
  BY <1>3, FreeDmaIs
<1> HIDE DEF F
<1>5. R \in TreeRecord /\ R.held = F.held \ Frames /\ R.misused = F.misused
  BY <1>1, <1>4, UnwindIs
<1>6. DmaFreed \ D.held \subseteq DmaFreed \ T.held BY <1>2, <1>3, DmaApart DEF DmaFreed
<1>7. R.held = Rest(T) BY <1>2, <1>3, <1>4, <1>5 DEF Rest
<1>8. QED BY <1>2, <1>3, <1>4, <1>5, <1>6, <1>7

LEMMA RemovalUnwound ==
    ASSUME NEW T \in TreeRecord, \A g \in Groups : Neat(T, g),
           NEW R, R = Unwind(TopDirs(clean_up_sysfs(netana_free_dma(T))))
    PROVE  /\ R \in TreeRecord /\ R.held = Rest(T)
           /\ R.misused \subseteq T.misused \cup (Dirs(T) \ T.held) \cup FilterUnread
                                    \cup (DmaFreed \ T.held)
<1> DEFINE F == netana_free_dma(T)
           C == clean_up_sysfs(F)
           D == TopDirs(C)
<1>1. R = Unwind(D) OBVIOUS
<1>2. /\ F \in TreeRecord /\ F.refs = T.refs /\ F.cnt = T.cnt /\ F.held = T.held \ DmaFreed
      /\ F.misused = T.misused \cup (DmaFreed \ T.held)
  BY FreeDmaIs
<1> HIDE DEF F
<1>3. Dirs(F) = Dirs(T) BY <1>2 DEF Dirs
<1>4. \A g \in Groups : Whole(F, g) = Whole(T, g) /\ Stuff(F, g) = Stuff(T, g)
  BY <1>2 DEF Whole, Members, Stuff
<1>5. \A g \in Groups : Whole(T, g) \cap DmaFreed = {}
  <2> SUFFICES ASSUME NEW g \in Groups, NEW x \in Whole(T, g) PROVE x \notin DmaFreed OBVIOUS
  <2>1. x[1] \in {"set", "array", "entry"} BY DEF Whole, Members, Set, Array, Entry
  <2>2. QED BY <2>1 DEF DmaFreed, DmaThings, DmaMemory, DmaBuffer, DmaInfo, Top
<1>6. \A g \in Groups : Neat(F, g) BY <1>2, <1>4, <1>5 DEF Neat
<1>7. Cleaned(F) = Cleaned(T) BY <1>4 DEF Cleaned
<1>8. /\ C \in TreeRecord
      /\ C.held = (F.held \ (Dirs(F) \cup Cleaned(F))) \ {FilterBuffers}
      /\ C.misused \subseteq F.misused \cup (Dirs(F) \ F.held) \cup FilterUnread
  BY <1>2, <1>6, CleanUpIs
<1> HIDE DEF C
<1>9. D \in TreeRecord /\ D.held = C.held \ LastTops /\ D.misused = C.misused
  BY <1>8, TopDirsIs
<1> HIDE DEF D
<1>10. R \in TreeRecord /\ R.held = D.held \ Frames /\ R.misused = D.misused
  BY <1>1, <1>9, UnwindIs
<1>11. Dirs(F) \ F.held \subseteq Dirs(T) \ T.held BY <1>2, <1>3, DmaApart DEF DmaFreed
<1>12. R.held = Rest(T) BY <1>2, <1>3, <1>7, <1>8, <1>9, <1>10 DEF Rest
<1>13. QED BY <1>2, <1>8, <1>9, <1>10, <1>11, <1>12

-----------------------------------------------------------------------------

(* What a failed probe may leave and misuse, also one that gets no further *)
(* than stop_dsr_thread (Stopped), and what has to be so for               *)
(* clean_up_sysfs and all behind it to leave and misuse no more.           *)
LastGpios == {Entry("gpio", i) : i \in 1 .. device.gpios - 1}
ForgottenByProbe == FirstEntries \cup {InfoMemory, Top("drv_info"), Array("filter")} \cup LastGpios
MisusedByProbe ==
    FilterUnread \cup {Dir("dev_info"), Dir("mbx")}
      \cup {Frame("info"), Frame("regions"), Frame("enabled")}
      \cup {DmaInfo(i) : i \in 1 .. DmaCnt - 1}
      \cup (unseen \cap NoThreads) \cup Twice(unseen)
Stopped(R) == R \in TreeRecord /\ R.misused \subseteq MisusedByProbe
Unwound(R) == Stopped(R) /\ R.held \subseteq ForgottenByProbe
Ready(S) ==
    /\ S \in TreeRecord /\ \A g \in Groups : Neat(S, g)
    /\ Rest(S) \subseteq ForgottenByProbe
    /\ S.misused \subseteq MisusedByProbe /\ Dirs(S) \ S.held \subseteq MisusedByProbe
    /\ DmaFreed \ S.held \subseteq MisusedByProbe
    /\ Frame("thread") \in S.held <=> Frame("thread") \notin unseen

LEMMA ThreadStopped ==
    ASSUME NEW T \in TreeRecord, NEW R, R = stop_dsr_thread(T)
    PROVE  /\ R \in TreeRecord /\ R.held = T.held
           /\ R.misused = T.misused \cup ({Frame("thread")} \ T.held)
<1>1. {Frame("thread")} \in SUBSET Things BY DEF Frame, Things, Kinds, Names, BringUpNames
<1>2. R = Use(T, {Frame("thread")}) BY DEF stop_dsr_thread
<1>3. QED BY <1>1, <1>2, UseIs

LEMMA ReadyUnwinds ==
    ASSUME NEW S, Ready(S), NEW R, R = GiveUp(TopDirs(clean_up_sysfs(S)))
    PROVE  Stopped(R) /\ (Frame("thread") \in S.held => Unwound(R))
<1> DEFINE C == clean_up_sysfs(S)
           D == TopDirs(C)
<1>1. S \in TreeRecord /\ \A g \in Groups : Neat(S, g) BY DEF Ready
<1>2. /\ C \in TreeRecord
      /\ C.held = (S.held \ (Dirs(S) \cup Cleaned(S))) \ {FilterBuffers}
      /\ C.misused \subseteq S.misused \cup (Dirs(S) \ S.held) \cup FilterUnread
  BY <1>1, CleanUpIs
<1>3. R = GiveUp(D) OBVIOUS
<1> HIDE DEF C
<1>4. D \in TreeRecord /\ D.held = C.held \ LastTops /\ D.misused = C.misused
  BY <1>2, TopDirsIs
<1> HIDE DEF D
<1>5. Frame("thread") \in D.held <=> Frame("thread") \in S.held
  <2>1. Frame("thread")[1] = "frame" BY DEF Frame
  <2>2. \A g \in Groups : Frame("thread") \notin Whole(S, g)
    BY <2>1 DEF Whole, Members, Set, Array, Entry
  <2>3. Frame("thread") \notin Cleaned(S) BY <2>2 DEF Cleaned, Stuff
  <2>4. Frame("thread") \notin LastTops /\ Frame("thread") # FilterBuffers
        /\ Frame("thread") \notin Dirs(S)
    BY <2>1 DEF LastTops, Top, FilterBuffers, Dirs
  <2>5. QED BY <1>2, <1>4, <2>3, <2>4
<1>6. CASE Frame("thread") \in S.held
  <2>1. R = Unwind(netana_free_dma(TopDirs(clean_up_sysfs(S))))
    <3>1. R = Unwind(netana_free_dma(D)) BY <1>3, <1>5, <1>6 DEF GiveUp, HasThread
    <3>2. QED BY <3>1 DEF C, D
  <2>2. /\ R \in TreeRecord /\ R.held = Rest(S)
        /\ R.misused \subseteq S.misused \cup (Dirs(S) \ S.held) \cup FilterUnread
                                 \cup (DmaFreed \ S.held)
    BY <1>1, <2>1, ProbeUnwound
  <2>3. FilterUnread \subseteq MisusedByProbe BY DEF MisusedByProbe
  <2>4. R.misused \subseteq MisusedByProbe /\ R.held \subseteq ForgottenByProbe
    BY <2>2, <2>3 DEF Ready
  <2>5. QED BY <2>2, <2>4 DEF Stopped, Unwound
<1>7. CASE Frame("thread") \notin S.held
  <2>1. R = stop_dsr_thread(D) BY <1>3, <1>5, <1>7 DEF GiveUp, HasThread
  <2>2. R \in TreeRecord /\ R.misused \subseteq D.misused \cup {Frame("thread")}
    BY <1>4, <2>1, ThreadStopped
  <2>3. Frame("thread") \in MisusedByProbe
    BY <1>7 DEF Ready, MisusedByProbe, NoThreads
  <2>4. FilterUnread \subseteq MisusedByProbe BY DEF MisusedByProbe
  <2>5. R.misused \subseteq MisusedByProbe BY <1>2, <1>4, <2>2, <2>3, <2>4 DEF Ready
  <2>6. QED BY <1>7, <2>2, <2>5 DEF Stopped
<1>8. QED BY <1>6, <1>7

(* What was built is held, unless its failure was not seen or              *)
(* netana_create_dma gave it back.                                         *)
LEMMA BuiltHeld ==
    ASSUME NEW P, NEW T, AsBuilt(P, unseen, T)
    PROVE  /\ P \ Lost(unseen) \subseteq T.held /\ T.held \cap Lost(unseen) = {}
           /\ T.misused \subseteq Twice(unseen)
           /\ DmaThings \subseteq P => DmaFreed \ T.held \subseteq Twice(unseen)
           /\ Frame("thread") \in P =>
                (Frame("thread") \in T.held <=> Frame("thread") \notin unseen)
<1>1. P \ Lost(unseen) \subseteq T.held
  <2>1. \A y \in P : y \in With(y) BY DEF With
  <2>2. QED BY <2>1, WithsAre DEF AsBuilt
<1>2. T.misused \subseteq Twice(unseen) /\ T.held \cap Lost(unseen) = {} BY DEF AsBuilt
<1>3. \A y \in DmaThings : y # Frame("thread") /\ y \notin NoThreads
  BY DEF DmaThings, DmaMemory, DmaBuffer, DmaInfo, Top, Frame, NoThreads
<1>4. ASSUME DmaThings \subseteq P, NEW y \in DmaFreed \ T.held PROVE y \in Twice(unseen)
  <2>1. y \in DmaThings /\ y \notin unseen BY <1>4 DEF DmaFreed
  <2>2. y \in Lost(unseen) BY <1>1, <1>4, <2>1
  <2>3. QED BY <1>3, <2>1, <2>2 DEF Lost, Twice
<1>5. Frame("thread") \in Lost(unseen) <=> Frame("thread") \in unseen
  BY <1>3 DEF Lost, DmaGone, NoThreads
<1>6. QED BY <1>1, <1>2, <1>4, <1>5

LEMMA BuiltReady ==
    ASSUME Counted, NEW P, Prefix(P), NEW T, AsBuilt(P, unseen, T), \A x \in P : x[1] # "absent",
           DmaThings \subseteq P, Frame("thread") \in P, Set("filter") \in P => FilterBuffers \in P
    PROVE  Ready(T)
<1>1. \A g \in Groups : Neat(T, g) BY BuiltNeat
<1>2. Dirs(T) \subseteq T.held BY BuiltDirs
<1>3. Rest(T) \subseteq FirstEntries \cup {InfoMemory} \cup GpioRest(P) \cup FilterRest(P)
  BY BuiltRest
<1>4. FilterRest(P) \subseteq {Array("filter")} BY DEF FilterRest
<1>5. GpioRest(P) \subseteq LastGpios BY DEF GpioRest, LastGpios
<1>6. /\ DmaFreed \ T.held \subseteq Twice(unseen) /\ T.misused \subseteq Twice(unseen)
      /\ Frame("thread") \in T.held <=> Frame("thread") \notin unseen
  BY BuiltHeld
<1>7. T \in TreeRecord BY DEF AsBuilt
<1>8. Rest(T) \subseteq ForgottenByProbe BY <1>3, <1>4, <1>5 DEF ForgottenByProbe
<1>9. Twice(unseen) \subseteq MisusedByProbe BY DEF MisusedByProbe
<1>10. QED BY <1>1, <1>2, <1>6, <1>7, <1>8, <1>9 DEF Ready

(* The functions that create sysfs objects leave such a tree behind,       *)
(* whichever of their steps fails: directories,                            *)
LEMMA DirFailsReady ==
    ASSUME NEW T, Ready(T), NEW x, x[1] = "dir", NEW S \in DirFails(T, x) PROVE Ready(S)
<1>1. T \in TreeRecord BY DEF Ready
<1>2. /\ \A n \in {"dev_info", "mbx", "ident_info"} : Dir(n) \in Things /\ Dir(n)[1] = "dir"
      /\ Dir("dev_info") # Dir("mbx") /\ Dir("dev_info") # Dir("ident_info")
      /\ Dir("mbx") # Dir("ident_info")
  BY DEF Dir, Things, Kinds, Names, InformationNames, ControlNames
<1>3. CASE S = T BY <1>3
<1>4. ASSUME x = Dir("dev_info") \/ x = Dir("mbx"), S = [T EXCEPT !.refs = @ \cup {x}]
      PROVE  Ready(S)
  <2>1. x \in Things BY <1>2, <1>4
  <2>2. /\ S \in TreeRecord /\ S.refs = T.refs \cup {x} /\ S.held = T.held /\ S.cnt = T.cnt
        /\ S.misused = T.misused
    BY <1>1, <1>4, <2>1 DEF TreeRecord
  <2>3. \A g \in Groups : /\ Whole(S, g) = Whole(T, g)
                          /\ Set(g) \in S.refs <=> Set(g) \in T.refs
    BY <1>4, <2>2 DEF Whole, Members, Set, Dir
  <2>4. /\ \A g \in Groups : Neat(S, g)
        /\ \A g \in Groups : Stuff(S, g) = Stuff(T, g)
    BY <2>2, <2>3 DEF Neat, Stuff, Ready
  <2>5. Cleaned(S) = Cleaned(T) BY <2>4 DEF Cleaned
  <2>6. Dirs(S) = Dirs(T) \cup {x} BY <1>2, <1>4, <2>2 DEF Dirs
  <2>7. Rest(S) \subseteq Rest(T) BY <2>2, <2>5, <2>6 DEF Rest
  <2>8. Dirs(S) \ S.held \subseteq MisusedByProbe
    BY <1>4, <2>2, <2>6 DEF Ready, MisusedByProbe
  <2>9. Frame("thread") # x BY <1>2, <1>4 DEF Frame
  <2>10. DmaFreed \ S.held \subseteq DmaFreed \ T.held BY <2>2
  <2>11. QED BY <2>2, <2>4, <2>7, <2>8, <2>9, <2>10 DEF Ready
<1>5. ASSUME x = Dir("ident_info"), S = [T EXCEPT !.refs = @ \cup {x}, !.held = @ \cup {x}]
      PROVE  Ready(S)
  <2>1. x \in Things BY <1>2, <1>5
  <2>2. /\ S \in TreeRecord /\ S.refs = T.refs \cup {x} /\ S.held = T.held \cup {x}
        /\ S.cnt = T.cnt /\ S.misused = T.misused
    BY <1>1, <1>5, <2>1 DEF TreeRecord
  <2>3. \A g \in Groups : /\ Whole(S, g) = Whole(T, g)
                          /\ Set(g) \in S.refs <=> Set(g) \in T.refs
    BY <1>5, <2>2 DEF Whole, Members, Set, Dir
  <2>4. /\ \A g \in Groups : Neat(S, g)
        /\ \A g \in Groups : Stuff(S, g) = Stuff(T, g)
    BY <2>2, <2>3 DEF Neat, Stuff, Ready
  <2>5. Cleaned(S) = Cleaned(T) BY <2>4 DEF Cleaned
  <2>6. Dirs(S) = Dirs(T) \cup {x} BY <1>2, <1>5, <2>2 DEF Dirs
  <2>7. Rest(S) \subseteq Rest(T) BY <2>2, <2>5, <2>6 DEF Rest
  <2>8. Dirs(S) \ S.held \subseteq MisusedByProbe BY <2>2, <2>6 DEF Ready
  <2>9. Frame("thread") # x BY <1>2, <1>5 DEF Frame
  <2>10. DmaFreed \ S.held \subseteq DmaFreed \ T.held BY <2>2
  <2>11. QED BY <2>2, <2>4, <2>7, <2>8, <2>9, <2>10 DEF Ready
<1>6. \/ S = T
      \/ (x = Dir("dev_info") \/ x = Dir("mbx")) /\ S = [T EXCEPT !.refs = @ \cup {x}]
      \/ x = Dir("ident_info") /\ S = [T EXCEPT !.refs = @ \cup {x}, !.held = @ \cup {x}]
  <2>1. CASE x = Dir("dev_info") BY <2>1 DEF DirFails
  <2>2. CASE x = Dir("mbx") BY <1>2, <2>2 DEF DirFails
  <2>3. CASE x = Dir("ident_info") BY <1>2, <2>3 DEF DirFails
  <2>4. CASE x # Dir("dev_info") /\ x # Dir("mbx") /\ x # Dir("ident_info")
    BY <2>4 DEF DirFails
  <2>5. QED BY <2>1, <2>2, <2>3, <2>4
<1>7. QED BY <1>3, <1>4, <1>5, <1>6

(* groups (err_filter, err_gpio, err_port, err_phy),                       *)
LEMMA GroupFailsReady ==
    ASSUME NEW T, Ready(T), NEW g \in Groups, Set(g) \in T.refs, NEW S \in GroupFails(T, g)
    PROVE  Ready(S)
<1> DEFINE C == cleanup_objset(T, g)
           E == [C EXCEPT !.refs = @ \ {Set(g)}]
           Q == Put(E, {Set(g)})
<1>1. T \in TreeRecord /\ Whole(T, g) \subseteq T.held BY DEF Ready, Neat
<1>2. S = IF g = "filter" THEN kfree(Q, FilterBuffers) ELSE Q BY DEF GroupFails
<1>3. /\ C \in TreeRecord /\ C.refs = T.refs /\ C.cnt = [T.cnt EXCEPT ![g] = 0]
      /\ C.held = T.held \ (Members(T, g) \cup {Array(g)}) /\ C.misused = T.misused
  BY <1>1, CleanupIs DEF Whole
<1> HIDE DEF C
<1>4. /\ E \in TreeRecord /\ E.refs = T.refs \ {Set(g)} /\ E.cnt = C.cnt
      /\ E.held = C.held /\ E.misused = C.misused
  BY <1>3 DEF TreeRecord
<1> HIDE DEF E
<1>5. {Set(g)} \in SUBSET Things BY <1>1, GroupThings DEF Whole
<1>6. Set(g) \in C.held
  <2>1. Set(g) \notin Members(T, g) \cup {Array(g)} BY DEF Set, Array, Members, Entry
  <2>2. QED BY <1>1, <1>3, <2>1 DEF Whole
<1>7. /\ Q \in TreeRecord /\ Q.refs = E.refs /\ Q.cnt = E.cnt
      /\ Q.held = E.held \ {Set(g)} /\ Q.misused = E.misused \cup ({Set(g)} \ E.held)
  BY <1>4, <1>5, PutIs
<1> HIDE DEF Q
<1>8. /\ Q.refs = T.refs \ {Set(g)} /\ Q.cnt = [T.cnt EXCEPT ![g] = 0]
      /\ Q.held = T.held \ Whole(T, g) /\ Q.misused = T.misused
  BY <1>3, <1>4, <1>6, <1>7 DEF Whole
<1>9. /\ S \in TreeRecord /\ S.refs = Q.refs /\ S.cnt = Q.cnt /\ S.misused = Q.misused
      /\ S.held = Q.held \ {FilterBuffers} \/ S.held = Q.held
  BY <1>2, <1>7, KfreeIs
<1>10. \A h \in Groups \ {g} : /\ Whole(S, h) = Whole(T, h)
                               /\ Set(h) \in S.refs <=> Set(h) \in T.refs
  <2> TAKE h \in Groups \ {g}
  <2>1. S.cnt[h] = T.cnt[h] BY <1>1, <1>8, <1>9 DEF TreeRecord
  <2>2. Set(h) # Set(g) BY DEF Set
  <2>3. QED BY <1>8, <1>9, <2>1, <2>2 DEF Whole, Members
<1>11. ASSUME NEW h \in Groups PROVE Neat(S, h)
  <2>1. CASE h = g BY <1>8, <1>9, <2>1 DEF Neat
  <2>2. CASE h # g
    <3>1. Set(h) \in T.refs => Whole(T, h) \subseteq T.held BY DEF Ready, Neat
    <3>2. Whole(T, h) \cap Whole(T, g) = {} BY <2>2, StuffApart
    <3>3. FilterBuffers \notin Whole(T, h)
      BY DEF FilterBuffers, Whole, Members, Set, Array, Entry
    <3>4. QED BY <1>8, <1>9, <1>10, <2>2, <3>1, <3>2, <3>3 DEF Neat
  <2>3. QED BY <2>1, <2>2
<1>12. Dirs(S) = Dirs(T) BY <1>8, <1>9 DEF Dirs, Set
<1>13. ASSUME NEW y \in Rest(S) PROVE y \in Rest(T)
  <2>1. /\ y \in S.held /\ y \notin Dirs(T) /\ y # FilterBuffers /\ y \notin LastTops
        /\ y \notin DmaFreed /\ y \notin Frames /\ \A h \in Groups : y \notin Stuff(S, h)
    BY <1>12 DEF Rest, Cleaned
  <2>2. y \in T.held /\ y \notin Whole(T, g) BY <1>8, <1>9, <2>1
  <2>3. \A h \in Groups : y \notin Stuff(T, h) BY <1>10, <2>1, <2>2 DEF Stuff
  <2>4. QED BY <2>1, <2>2, <2>3 DEF Rest, Cleaned
<1>14. \A y \in DmaFreed \cup {Frame("thread")} : y \notin Whole(T, g) /\ y # FilterBuffers
  <2> TAKE y \in DmaFreed \cup {Frame("thread")}
  <2>1. y[1] \in {"buffer", "info", "infos", "top", "frame"}
    BY DEF DmaFreed, DmaThings, DmaMemory, DmaBuffer, DmaInfo, Top, Frame
  <2>2. QED BY <2>1 DEF Whole, Members, Set, Array, Entry, FilterBuffers
<1>15. /\ DmaFreed \ S.held \subseteq DmaFreed \ T.held
       /\ Frame("thread") \in S.held <=> Frame("thread") \in T.held
  BY <1>8, <1>9, <1>14
<1>16. \A y \in Dirs(T) : y \notin Whole(T, g) /\ y # FilterBuffers
  <2> TAKE y \in Dirs(T)
  <2>1. y[1] = "dir" BY DEF Dirs
  <2>2. QED BY <2>1 DEF Whole, Members, Set, Array, Entry, FilterBuffers
<1>17. Dirs(S) \ S.held \subseteq Dirs(T) \ T.held BY <1>8, <1>9, <1>12, <1>16
<1>18. QED BY <1>8, <1>9, <1>11, <1>13, <1>15, <1>17 DEF Ready

LEMMA FilterWhole ==
    ASSUME Counted, NEW p \in Nat, p < Len(Tree), NEW x, x = Tree[p + 1],
           x # FilterBuffers, x # Array("filter"), Set("filter") \in Past(p)
    PROVE  FilterBuffers \in Past(p)
<1>1. /\ x \in TreeThings
      /\ \A y \in Past(p) : y \in TreeThings /\ Before(y, x)
      /\ \A y \in TreeThings : y \in Past(p) \/ y = x \/ Before(x, y)
  BY CreationOrder
<1>2. FilterBuffers \in TreeThings BY <1>1, FilterInTree
<1>3. Array("filter") \in TreeThings BY <1>1, FilterInTree
<1>4. Stage(x) \in Nat /\ x[3] \in Nat
  <2>1. x \in Things BY <1>1, TreeThingsType
  <2>2. QED BY <2>1, StageNat DEF Things
<1>5. Before(Set("filter"), x) BY <1>1
<1>6. 9 \notin Loose /\ 10 \notin Loose /\ 11 \notin Loose BY DEF Loose
<1>7. FilterBuffers[3] = 0 /\ Array("filter")[3] = 0 /\ Set("filter")[3] = 0
  BY DEF FilterBuffers, Array, Set
<1>8. SUFFICES ASSUME FilterBuffers \notin Past(p) PROVE FALSE OBVIOUS
<1>9. Before(x, FilterBuffers) BY <1>1, <1>2, <1>8
<1>10. Stage(x) = 9 \/ Stage(x) = 10
  BY <1>4, <1>5, <1>6, <1>7, <1>9, FilterStages DEF Before
<1>11. x[1] # "values" /\ (x[1] = "array" => x = Array("filter"))
  <2>1. /\ ~(x \in Frames /\ x[1] \in {"values", "array"})
        /\ ~(x \in DmaThings /\ x[1] \in {"values", "array"})
        /\ ~(x \in LastTops /\ x[1] \in {"values", "array"})
    BY AllFrames DEF FirstFrames, Frame, DmaThings, DmaMemory, DmaBuffer, DmaInfo, Top, LastTops
  <2>2. QED BY <1>1, <2>1, ShapeOf DEF Dir, Set, FilterBuffers, Absent, Entry
<1>12. CASE Stage(x) = 10
  <2>1. Stage(x) # 10
    <3>1. x[1] # "array" BY <1>11
    <3>2. \A n : FrameStage(n) # 10 /\ TopStage(n) # 10 /\ DirStage(n) # 10
                 /\ SetStage(n) # 10 /\ EntryStage(n) # 10
      BY DEF FrameStage, TopStage, DirStage, SetStage, EntryStage
    <3>3. QED BY <3>1, <3>2 DEF Stage
  <2>2. QED BY <1>12, <2>1
<1>13. CASE Stage(x) = 9
  <2>1. Set("filter")[3] < x[3] BY <1>5, <1>6, <1>13, FilterStages DEF Before
  <2>2. x[1] \in {"set", "absent"}
    <3>1. \A n : FrameStage(n) # 9 /\ TopStage(n) # 9 /\ DirStage(n) # 9 /\ EntryStage(n) # 9
      BY DEF FrameStage, TopStage, DirStage, EntryStage
    <3>2. QED BY <1>13, <3>1 DEF Stage
  <2>3. x[3] = 0
    <3>1. x \notin Frames /\ x \notin DmaThings /\ x \notin LastTops
      BY <2>2, AllFrames DEF FirstFrames, Frame, DmaThings, DmaMemory, DmaBuffer, DmaInfo, Top, LastTops
    <3>2. QED BY <1>1, <2>2, <3>1, ShapeOf DEF Dir, Array, Set, FilterBuffers, Absent, Entry
  <2>4. QED BY <1>7, <2>1, <2>3
<1>14. QED BY <1>10, <1>12, <1>13

(* the filters without array or buffers (err_filter_mem), once it is clear *)
(* how far the filters are when something else fails,                      *)
LEMMA FilterFailsReady ==
    ASSUME Counted, NEW P, Prefix(P), NEW T, AsBuilt(P, unseen, T),
           \A x \in P : x[1] # "absent", DmaThings \subseteq P, Frame("thread") \in P,
           Set("filter") \in P, FilterBuffers \notin P,
           NEW S \in FilterFails(T)
    PROVE  Ready(S)
<1>1. T \in TreeRecord /\ T.misused \subseteq Twice(unseen) BY DEF AsBuilt
<1>2. /\ Set("filter") \in T.held
      /\ DmaFreed \ T.held \subseteq Twice(unseen)
      /\ Frame("thread") \in T.held <=> Frame("thread") \notin unseen
  <2>1. Set("filter")[1] = "set" BY DEF Set
  <2>2. Set("filter") \notin Lost(unseen) BY <2>1, LostKinds
  <2>3. QED BY <2>2, BuiltHeld
<1>3. {Set("filter")} \in SUBSET Things BY DEF Set, Things, Kinds, Names, Groups
<1>4. S = Put(T, {Set("filter")}) BY DEF FilterFails
<1>5. /\ S \in TreeRecord /\ S.refs = T.refs /\ S.cnt = T.cnt
      /\ S.held = T.held \ {Set("filter")} /\ S.misused = T.misused \cup ({Set("filter")} \ T.held)
  BY <1>1, <1>3, <1>4, PutIs
<1>6. S.misused \subseteq Twice(unseen) BY <1>1, <1>2, <1>5
<1>7. "filter" \in Groups BY DEF Groups
<1>8. Set("filter") \notin T.refs BY <1>7, BuiltRefs
<1>9. \A g \in Groups : Whole(S, g) = Whole(T, g) /\ Stuff(S, g) = Stuff(T, g)
  BY <1>5 DEF Whole, Members, Stuff
<1>10. ASSUME NEW g \in Groups PROVE Neat(S, g)
  <2>1. Neat(T, g) BY BuiltNeat
  <2>2. CASE g = "filter" BY <1>5, <1>8, <2>2 DEF Neat
  <2>3. CASE g # "filter"
    <3>1. Set("filter") \notin Whole(T, g) BY <2>3 DEF Whole, Members, Set, Array, Entry
    <3>2. QED BY <1>5, <1>9, <2>1, <3>1 DEF Neat
  <2>4. QED BY <2>2, <2>3
<1>11. Dirs(S) = Dirs(T) /\ Cleaned(S) = Cleaned(T) BY <1>5, <1>9 DEF Dirs, Cleaned
<1>12. Rest(S) = Rest(T) \ {Set("filter")} BY <1>5, <1>11 DEF Rest
<1>13. Rest(T) \subseteq FirstEntries \cup {InfoMemory} \cup GpioRest(P) \cup FilterRest(P)
  BY BuiltRest
<1>14. FilterRest(P) \subseteq {Array("filter"), Set("filter")} BY DEF FilterRest
<1>15. GpioRest(P) \subseteq LastGpios BY DEF GpioRest, LastGpios
<1>16. Rest(S) \subseteq ForgottenByProbe BY <1>12, <1>13, <1>14, <1>15 DEF ForgottenByProbe
<1>17. Dirs(S) \ S.held = {}
  <2>1. Dirs(T) \subseteq T.held BY BuiltDirs
  <2>2. Set("filter") \notin Dirs(T) BY DEF Dirs, Set
  <2>3. QED BY <1>5, <1>11, <2>1, <2>2
<1>18. /\ DmaFreed \ S.held \subseteq Twice(unseen)
       /\ Frame("thread") \in S.held <=> Frame("thread") \notin unseen
  <2>1. Set("filter") \notin DmaFreed /\ Set("filter") # Frame("thread")
    BY DEF Set, Frame, DmaFreed, DmaThings, DmaMemory, DmaBuffer, DmaInfo, Top
  <2>2. QED BY <1>2, <1>5, <2>1
<1>19. Twice(unseen) \subseteq MisusedByProbe BY DEF MisusedByProbe
<1>20. QED BY <1>5, <1>6, <1>10, <1>16, <1>17, <1>18, <1>19 DEF Ready

(* and the file of the last filter, which leaves the group as it is.       *)
LEMMA LastFilterReady ==
    ASSUME Counted, NEW p \in Nat, p < Len(Tree), NEW x, x = Tree[p + 1],
           x = Entry("filter", device.gpios - 1), NEW T, AsBuilt(Past(p), unseen, T), Ready(T),
           NEW S, S = [T EXCEPT !.held = @ \cup {x}, !.cnt["filter"] = device.gpios]
    PROVE  Ready(S)
<1>1. T \in TreeRecord BY DEF AsBuilt
<1>2. "filter" \in Groups /\ device.gpios \in Nat BY DEF Groups, Counted
<1>3. x \in TreeThings BY CreationOrder
<1>4. PICK g \in Groups, k \in Nat : x = Entry(g, k) /\ k < EntryCount(g)
  BY <1>3, EntryShape, EntryStages
<1>5. g = "filter" /\ k = device.gpios - 1
  <2>1. x[2] = "filter" /\ x[3] = device.gpios - 1 BY EntryStages
  <2>2. x[2] = g /\ x[3] = k BY <1>4, EntryStages
  <2>3. QED BY <2>1, <2>2
<1>6. device.gpios = k + 1 BY <1>2, <1>5
<1>7. \A j \in Nat : Entry("filter", j) \in Past(p) <=> j < k
  BY <1>2, <1>4, <1>5, EntriesInOrder
<1>8. /\ S \in TreeRecord /\ S.held = T.held \cup {x} /\ S.refs = T.refs
      /\ S.misused = T.misused /\ S.cnt = [T.cnt EXCEPT !["filter"] = device.gpios]
  <2>1. x \in Things BY <1>3, TreeThingsType
  <2> DEFINE n == [T.cnt EXCEPT !["filter"] = device.gpios]
  <2>2. n \in [Groups -> Nat] BY <1>1, <1>2 DEF TreeRecord
  <2> DEFINE h == T.held \cup {x}
  <2>3. h \in SUBSET Things BY <1>1, <2>1 DEF TreeRecord
  <2>4. S = [T EXCEPT !.held = h, !.cnt = n] BY <1>1 DEF TreeRecord
  <2> HIDE DEF n, h
  <2>5. /\ S \in TreeRecord /\ S.held = h /\ S.refs = T.refs
        /\ S.misused = T.misused /\ S.cnt = n
    BY <1>1, <2>2, <2>3, <2>4 DEF TreeRecord
  <2>6. QED BY <2>5 DEF n, h
<1>9. S.cnt["filter"] = device.gpios /\ \A h \in Groups \ {"filter"} : S.cnt[h] = T.cnt[h]
  BY <1>1, <1>2, <1>8 DEF TreeRecord
<1>10. \A h \in Groups \ {"filter"} : Whole(S, h) = Whole(T, h) /\ Stuff(S, h) = Stuff(T, h)
  BY <1>8, <1>9 DEF Whole, Members, Stuff
<1>11. \A z \in Past(p) : z[1] = "entry" => z \in T.held
  <2>1. \A z \in Past(p) : z[1] = "entry" => z \notin Lost(unseen) BY LostKinds
  <2>2. QED BY <2>1, BuiltHeld
<1>12. Members(S, "filter") \subseteq S.held
  <2> SUFFICES ASSUME NEW i \in 1 .. device.gpios - 1 PROVE Entry("filter", i) \in S.held
    BY <1>9 DEF Members
  <2>1. i \in Nat /\ (i < k \/ i = k) BY <1>4, <1>6
  <2>2. CASE i < k
    <3>1. Entry("filter", i)[1] = "entry" BY DEF Entry
    <3>2. QED BY <1>7, <1>8, <1>11, <2>1, <2>2, <3>1
  <2>3. CASE i = k BY <1>4, <1>5, <1>8, <2>3
  <2>4. QED BY <2>1, <2>2, <2>3
<1>13. ASSUME NEW h \in Groups PROVE Neat(S, h)
  <2>1. Neat(T, h) BY DEF Ready
  <2>2. CASE h = "filter" BY <1>8, <1>12, <2>1, <2>2 DEF Neat, Whole
  <2>3. CASE h # "filter" BY <1>8, <1>10, <2>1, <2>3 DEF Neat
  <2>4. QED BY <2>2, <2>3
<1>14. Stuff(T, "filter") \subseteq Stuff(S, "filter")
  <2> SUFFICES ASSUME NEW i \in 1 .. T.cnt["filter"] - 1 PROVE i \in 1 .. S.cnt["filter"] - 1
    BY <1>8 DEF Stuff, Whole, Members
  <2>1. EntriesCounted(Past(p), T, "filter") BY <1>2 DEF AsBuilt
  <2>2. T.cnt["filter"] \in Nat BY <1>1, <1>2 DEF TreeRecord
  <2>3. T.cnt["filter"] # 0 BY <2>2
  <2>4. PICK l \in Nat : /\ T.cnt["filter"] = Count(Entry("filter", l))
                         /\ \A j \in Nat : Entry("filter", j) \in Past(p) <=> j <= l
    BY <2>1, <2>3 DEF EntriesCounted
  <2>5. Entry("filter", l)[2] = "filter" /\ Entry("filter", l)[3] = l BY EntryStages
  <2>6. T.cnt["filter"] = l + 1 BY <2>4, <2>5 DEF Count
  <2>7. l < k BY <1>7, <2>4
  <2>8. QED BY <1>6, <1>9, <2>6, <2>7
<1>15. Dirs(S) = Dirs(T) BY <1>8 DEF Dirs
<1>16. ASSUME NEW y \in Rest(S) PROVE y \in ForgottenByProbe
  <2>1. /\ y \in S.held /\ y \notin Dirs(T) /\ y # FilterBuffers /\ y \notin LastTops
        /\ y \notin DmaFreed /\ y \notin Frames /\ \A h \in Groups : y \notin Stuff(S, h)
    BY <1>15 DEF Rest, Cleaned
  <2>2. CASE y \in T.held
    <3>1. \A h \in Groups : y \notin Stuff(T, h) BY <1>10, <1>14, <2>1
    <3>2. y \in Rest(T) BY <2>1, <2>2, <3>1 DEF Rest, Cleaned
    <3>3. QED BY <3>2 DEF Ready
  <2>3. CASE y = x
    <3>1. CASE k = 0
      <4>1. y = Entry("filter", 0) BY <1>4, <1>5, <2>3, <3>1
      <4>2. QED BY <1>2, <4>1 DEF ForgottenByProbe, FirstEntries
    <3>2. CASE k # 0
      <4>1. Entry("filter", 0) \in Past(p) BY <1>4, <1>7, <3>2
      <4>2. p \in 0 .. Len(Tree) BY PastEnds
      <4>3. Set("filter") \in T.refs BY <1>2, <4>1, <4>2, PastPrefix, EntryReferred
      <4>4. k \in 1 .. S.cnt["filter"] - 1 BY <1>4, <1>6, <1>9, <3>2
      <4>5. y \in Stuff(S, "filter")
        BY <1>4, <1>5, <1>8, <2>3, <4>3, <4>4 DEF Stuff, Whole, Members
      <4>6. QED BY <1>2, <2>1, <4>5
    <3>3. QED BY <3>1, <3>2
  <2>4. QED BY <1>8, <2>1, <2>2, <2>3
<1>17. Dirs(S) \ S.held \subseteq MisusedByProbe BY <1>8, <1>15 DEF Ready
<1>18. /\ DmaFreed \ S.held \subseteq DmaFreed \ T.held
       /\ Frame("thread") \in S.held <=> Frame("thread") \in T.held
  <2>1. x # Frame("thread") BY DEF Entry, Frame
  <2>2. QED BY <1>8, <2>1
<1>19. QED BY <1>8, <1>13, <1>16, <1>17, <1>18 DEF Ready

(* All of them.                                                            *)
LEMMA SysfsFailsReady ==
    ASSUME Counted, NEW p \in Nat, p < Len(Tree), NEW x, x = Tree[p + 1], x \in SysfsThings,
           NEW T, AsBuilt(Past(p), unseen, T), \A y \in Past(p) : y[1] # "absent",
           NEW S \in SysfsFails(T, x)
    PROVE  Ready(S)
<1>1. p \in 0 .. Len(Tree) BY PastEnds
<1>2. Prefix(Past(p)) BY <1>1, PastPrefix
<1>3. /\ x \in TreeThings
      /\ x \notin Past(p) \cap {y \in Things : Stage(y) \notin Loose}
      /\ \A y \in Past(p) : y \in TreeThings /\ Before(y, x)
      /\ \A y \in TreeThings : y \in Past(p) \/ y = x \/ Before(x, y)
  BY CreationOrder
<1>4. x \in Things /\ Stage(x) \in Nat BY <1>3, TreeThingsType, StageNat
<1>5. DmaThings \subseteq Past(p)
  <2> SUFFICES ASSUME NEW y \in DmaThings, y \notin Past(p) PROVE FALSE OBVIOUS
  <2>1. y \in TreeThings BY DEF TreeThings
  <2>2. 1 <= Stage(y) /\ Stage(y) <= 4 /\ 6 <= Stage(x) BY StageBounds
  <2>3. Stage(y) \in Nat BY <2>1, TreeThingsType, StageNat
  <2>4. y # x BY <1>4, <2>2, <2>3
  <2>5. ~Before(x, y) BY <1>4, <2>2, <2>3 DEF Before
  <2>6. QED BY <1>3, <2>1, <2>4, <2>5
<1>a. Frame("thread") \in Past(p)
  <2>1. "thread" \in BringUpNames BY DEF BringUpNames
  <2>2. Frame("thread") \in TreeThings BY <2>1 DEF TreeThings
  <2>3. Stage(Frame("thread")) = 5 /\ 6 <= Stage(x) BY <2>1, StageBounds
  <2>4. ~Before(x, Frame("thread")) /\ x # Frame("thread") BY <1>4, <2>3 DEF Before
  <2>5. QED BY <1>3, <2>2, <2>4
<1>6. CASE x = FilterBuffers \/ x = Array("filter")
  <2>1. S \in FilterFails(T) BY <1>6 DEF SysfsFails, FilterBuffers, Array
  <2>2. Set("filter") \in TreeThings BY <1>3, <1>6, FilterInTree
  <2>3. 9 \notin Loose /\ 10 \notin Loose /\ 11 \notin Loose BY DEF Loose
  <2>4. Set("filter") \in Past(p)
    <3>1. Set("filter") # x BY <1>6 DEF Set, FilterBuffers, Array
    <3>2. ~Before(x, Set("filter")) BY <1>6, FilterStages DEF Before
    <3>3. QED BY <1>3, <2>2, <3>1, <3>2
  <2>5. FilterBuffers \notin Past(p)
    <3>1. CASE x = FilterBuffers BY <1>3, <1>4, <2>3, <3>1, FilterStages
    <3>2. CASE x = Array("filter")
      <4>1. ~Before(FilterBuffers, x) BY <3>2, FilterStages DEF Before
      <4>2. QED BY <1>3, <4>1
    <3>3. QED BY <1>6, <3>1, <3>2
  <2>6. QED BY <1>2, <1>5, <1>a, <2>1, <2>4, <2>5, FilterFailsReady
<1>7. CASE x # FilterBuffers /\ x # Array("filter")
  <2>1. Ready(T)
    <3>1. Set("filter") \in Past(p) => FilterBuffers \in Past(p) BY <1>7, FilterWhole
    <3>2. QED BY <1>2, <1>5, <1>a, <3>1, BuiltReady
  <2>2. CASE x[1] = "dir"
    <3>1. S \in DirFails(T, x) BY <2>2 DEF SysfsFails
    <3>2. QED BY <2>1, <2>2, <3>1, DirFailsReady
  <2>3. CASE x[1] = "entry"
    <3>1. S \in EntryFails(T, x) BY <2>3 DEF SysfsFails
    <3>2. PICK g \in Groups, k \in Nat : x = Entry(g, k) /\ k < EntryCount(g)
      BY <1>3, <2>3, EntryShape
    <3>3. x[2] = g /\ x[3] = k BY <3>2, EntryStages
    <3>4. CASE S \in GroupFails(T, g)
      <4>1. Set(g) \in TreeThings /\ (g = "filter" => FilterBuffers \in TreeThings)
        BY <3>2, EntryInTree
      <4>2. Stage(Set(g)) < Stage(x) /\ Stage(Set(g)) \in Nat BY <3>2, FilterStages, EntryStages
      <4>3. Set(g) \in Past(p)
        <5>1. Set(g) # x BY <2>3 DEF Set
        <5>2. ~Before(x, Set(g)) BY <1>4, <4>2 DEF Before
        <5>3. QED BY <1>3, <4>1, <5>1, <5>2
      <4>4. g = "filter" => FilterBuffers \in Past(p) BY <1>7, <4>3, FilterWhole
      <4>5. Set(g) \in T.refs BY <4>3, <4>4, BuiltRefs
      <4>6. QED BY <2>1, <3>4, <4>5, GroupFailsReady
    <3>5. CASE /\ x = Entry("filter", device.gpios - 1)
               /\ S = [T EXCEPT !.held = @ \cup {x}, !.cnt["filter"] = device.gpios]
      BY <2>1, <3>5, LastFilterReady
    <3>6. QED BY <3>1, <3>3, <3>4, <3>5 DEF EntryFails
  <2>4. CASE x[1] # "dir" /\ x[1] # "entry"
    <3>1. x[1] \notin {"array", "values"}
      <4>1. /\ x \notin Frames \/ x[1] = "frame"
            /\ x \notin DmaThings \/ x[1] \in {"buffer", "info", "infos", "top"}
            /\ x \notin LastTops \/ x[1] = "top"
        BY AllFrames DEF FirstFrames, Frame, DmaThings, DmaMemory, DmaBuffer, DmaInfo, Top, LastTops
      <4>2. QED BY <1>3, <1>7, <4>1, ShapeOf DEF Dir, Set, Absent, Entry
    <3>2. S = T BY <2>4, <3>1 DEF SysfsFails
    <3>3. QED BY <2>1, <3>2
  <2>5. QED BY <2>2, <2>3, <2>4
<1>8. QED BY <1>6, <1>7

(* Before sysfs there are only frames and the objects of                   *)
(* netana_create_dma.                                                      *)
LEMMA EarlyThings ==
    ASSUME Counted, NEW y \in TreeThings
    PROVE  /\ Stage(y) \in Nat
           /\ Stage(y) <= 0 => y \in FirstFrames
           /\ Stage(y) <= 4 => y \in FirstFrames \cup DmaThings
           /\ Stage(y) <= 5 => y \in Frames \cup DmaThings
<1>1. Stage(y) \in Nat BY TreeThingsType, StageNat
<1>2. CASE y \in FirstFrames BY <1>1, <1>2, AllFrames
<1>3. CASE y \in DmaThings
  <2>1. 1 <= Stage(y) /\ Stage(y) <= 4 BY <1>3, StageBounds
  <2>2. QED BY <1>1, <1>3, <2>1
<1>4. CASE y \in {Frame(n) : n \in BringUpNames}
  <2>1. Stage(y) = 5 BY <1>4, StageBounds
  <2>2. QED BY <1>4, <2>1, AllFrames
<1>5. CASE y \in SysfsThings
  <2>1. 6 <= Stage(y) BY <1>5, StageBounds
  <2>2. QED BY <1>1, <2>1
<1>6. QED BY <1>2, <1>3, <1>4, <1>5 DEF TreeThings

LEMMA EarlyHeld ==
    ASSUME NEW P, P \subseteq Frames \cup DmaThings, NEW U, NEW T, AsBuilt(P, U, T)
    PROVE  T.held = P \ Lost(U)
<1>1. ASSUME NEW y \in P PROVE With(y) = {y}
  <2>1. y[1] \in {"frame", "buffer", "info", "infos", "top"}
    BY AllFrames DEF FirstFrames, Frame, DmaThings, DmaMemory, DmaBuffer, DmaInfo, Top
  <2>2. QED BY <2>1 DEF With, Dir
<1>2. \A z : z \in T.held <=> (\E y \in P : z \in With(y)) /\ z \notin Lost(U)
  BY WithsAre DEF AsBuilt
<1>3. \A z : z \in T.held <=> z \in P /\ z \notin Lost(U) BY <1>1, <1>2
<1>4. QED BY <1>3

(* What the labels of netana_create_dma leave: the infos created so far    *)
(* are put and freed, and all but kobj_drv_info is given back.             *)
LEMMA DmaFailsIs ==
    ASSUME Counted, NEW p \in Nat, p < Len(Tree), NEW x, x = Tree[p + 1], x \in DmaThings,
           NEW U, NEW T, AsBuilt(Past(p), U, T), NEW F \in DmaFails(T, x)
    PROVE  /\ U = {} /\ Past(p) \subseteq FirstFrames \cup DmaThings
           /\ F \in TreeRecord /\ F.refs = T.refs /\ F.cnt = T.cnt
           /\ F.held = Past(p) \cap (FirstFrames \cup {Top("drv_info")})
           /\ F.misused = {y \in Past(p) : y[1] = "info"}
           /\ \A y \in Past(p) : y[1] = "info" =>
                \E i, j \in 1 .. DmaCnt : y = DmaInfo(i) /\ x = DmaInfo(j) /\ i < j
<1>1. /\ x \in TreeThings
      /\ x \notin Past(p) \cap {y \in Things : Stage(y) \notin Loose}
      /\ \A y \in Past(p) : y \in TreeThings /\ Before(y, x)
      /\ \A y \in TreeThings : y \in Past(p) \/ y = x \/ Before(x, y)
  BY CreationOrder
<1>2. U = {}
  <2>1. Unseen(Past(p), U) BY DEF AsBuilt
  <2>2. QED BY <2>1, NewNotLost
<1>3. Stage(x) \in Nat /\ 1 <= Stage(x) /\ Stage(x) <= 4 BY <1>1, EarlyThings, StageBounds
<1>4. \A y \in Past(p) : Stage(y) \in Nat /\ Stage(y) <= Stage(x)
  BY <1>1, <1>3, EarlyThings DEF Before
<1>5. Past(p) \subseteq FirstFrames \cup DmaThings BY <1>1, <1>3, <1>4, EarlyThings
<1>a. T \in TreeRecord /\ T.misused = {}
  <2>1. Twice(U) = {} BY <1>2 DEF Twice, DmaGone
  <2>2. QED BY <2>1 DEF AsBuilt
<1>6. T.held = Past(p)
  <2>1. Lost(U) = {} BY <1>2 DEF Lost, DmaGone
  <2>2. Past(p) \subseteq Frames \cup DmaThings BY <1>5, AllFrames
  <2>3. T.held = Past(p) \ Lost(U) BY <2>2, EarlyHeld
  <2>4. QED BY <2>1, <2>3
<1> DEFINE put == IF x[1] \in {"infos", "top"} THEN {} ELSE {Top("dma_dir")}
           infos == {y \in T.held : y[1] = "info"}
           buffers == {y \in T.held : y[1] = "buffer"}
           X == put \cup infos \cup buffers
           Q == Put(T, X)
           K == kfree(Q, DmaMemory)
<1>7. F = [K EXCEPT !.misused = @ \cup infos] BY DEF DmaFails
<1>8. put \subseteq T.held
  <2>1. CASE x[1] \in {"infos", "top"} BY <2>1
  <2>2. CASE x[1] \notin {"infos", "top"}
    <3>1. 3 <= Stage(x)
      BY <2>2 DEF DmaThings, DmaMemory, DmaBuffer, DmaInfo, Top, Stage
    <3>2. Stage(Top("dma_dir")) = 2 BY DEF Stage, Top, TopStage
    <3>3. Top("dma_dir") \in TreeThings BY DEF TreeThings, DmaThings
    <3>4. Top("dma_dir") # x BY <2>2 DEF Top
    <3>5. ~Before(x, Top("dma_dir")) BY <1>3, <3>1, <3>2 DEF Before
    <3>6. Top("dma_dir") \in Past(p) BY <1>1, <3>3, <3>4, <3>5
    <3>7. QED BY <1>6, <3>6
  <2>3. QED BY <2>1, <2>2
<1>9. X \subseteq T.held /\ X \in SUBSET Things /\ infos \in SUBSET Things
  BY <1>a, <1>8 DEF TreeRecord
<1>10. ASSUME NEW y \in Past(p), y[1] = "info"
       PROVE  \E i, j \in 1 .. DmaCnt : y = DmaInfo(i) /\ x = DmaInfo(j) /\ i < j
  <2>1. y \in DmaThings BY <1>5, <1>10 DEF FirstFrames, Frame
  <2>2. PICK i \in 1 .. DmaCnt : y = DmaInfo(i)
    BY <1>10, <2>1 DEF DmaThings, DmaMemory, DmaBuffer, Top
  <2>3. Stage(y) = 4 /\ y[3] = i BY <2>2 DEF Stage, DmaInfo
  <2>4. Stage(x) = 4 BY <1>3, <1>4, <2>3
  <2>5. x[1] = "info"
    BY <2>4 DEF DmaThings, DmaMemory, DmaBuffer, Top, DmaInfo, Stage, TopStage
  <2>6. PICK j \in 1 .. DmaCnt : x = DmaInfo(j) BY <2>5 DEF DmaThings, DmaMemory, DmaBuffer, Top
  <2>7. x[3] = j BY <2>6 DEF DmaInfo
  <2>8. 4 \notin Loose BY DEF Loose
  <2>9. i < j BY <1>1, <2>3, <2>4, <2>7, <2>8 DEF Before
  <2>10. QED BY <2>2, <2>6, <2>9
<1>11. \A y \in T.held \ X : y \in FirstFrames \/ y = Top("drv_info") \/ y = DmaMemory
  <2> TAKE y \in T.held \ X
  <2>1. y \in Past(p) BY <1>6
  <2>2. CASE y \in FirstFrames BY <2>2
  <2>3. CASE y \in DmaThings
    <3>1. y[1] # "info" /\ y[1] # "buffer" OBVIOUS
    <3>2. y = Top("dma_dir") \/ y = Top("drv_info") \/ y = DmaMemory
      BY <2>3, <3>1 DEF DmaThings, DmaBuffer, DmaInfo
    <3>3. y # Top("dma_dir")
      <4>1. CASE x[1] \notin {"infos", "top"} BY <4>1
      <4>2. CASE x[1] \in {"infos", "top"}
        <5>1. /\ Stage(Top("dma_dir")) = 2 /\ Stage(Top("drv_info")) = 1
              /\ Stage(DmaMemory) = 1
          BY DEF Stage, Top, TopStage, DmaMemory
        <5>2. x = Top("dma_dir") \/ x = Top("drv_info") \/ x = DmaMemory
          BY <4>2 DEF DmaThings, DmaBuffer, DmaInfo
        <5>3. 2 \notin Loose BY DEF Loose
        <5>4. Top("dma_dir") \notin Past(p)
          <6>1. x = Top("dma_dir") => x \notin Past(p)
            BY <1>1, <5>1, <5>3, TreeThingsType
          <6>2. x # Top("dma_dir") => Top("dma_dir") \notin Past(p)
            BY <1>4, <5>1, <5>2
          <6>3. QED BY <6>1, <6>2
        <5>5. QED BY <2>1, <5>4
      <4>3. QED BY <4>1, <4>2
    <3>4. QED BY <3>2, <3>3
  <2>4. QED BY <1>5, <2>1, <2>2, <2>3
<1>b. \A y \in FirstFrames \cup {Top("drv_info")} : y \notin X /\ y # DmaMemory
  BY DEF FirstFrames, Frame, Top, DmaMemory
<1>c. infos = {y \in Past(p) : y[1] = "info"} BY <1>6
<1> HIDE DEF X, infos
<1>12. /\ Q \in TreeRecord /\ Q.refs = T.refs /\ Q.cnt = T.cnt /\ Q.held = T.held \ X
       /\ Q.misused = T.misused \cup (X \ T.held)
  <2>1. Q = Put(T, X) OBVIOUS
  <2> HIDE DEF Q
  <2>2. QED BY <1>a, <1>9, <2>1, PutIs
<1> HIDE DEF Q
<1>13. /\ K \in TreeRecord /\ K.refs = Q.refs /\ K.cnt = Q.cnt
       /\ K.held = Q.held \ {DmaMemory} /\ K.misused = Q.misused
  BY <1>12, KfreeIs
<1> HIDE DEF K
<1>14. /\ F \in TreeRecord /\ F.refs = K.refs /\ F.cnt = K.cnt /\ F.held = K.held
       /\ F.misused = K.misused \cup infos
  BY <1>7, <1>9, <1>13 DEF TreeRecord
<1>15. F.misused = infos BY <1>a, <1>9, <1>12, <1>13, <1>14
<1>16. F.held = Past(p) \cap (FirstFrames \cup {Top("drv_info")})
  BY <1>6, <1>11, <1>b, <1>12, <1>13, <1>14
<1>17. QED BY <1>2, <1>5, <1>10, <1>12, <1>13, <1>14, <1>15, <1>16, <1>c

(* A failure of netana_create_dma that is seen,                            *)
LEMMA DmaUnwound ==
    ASSUME Counted, NEW p \in Nat, p < Len(Tree), NEW x, x = Tree[p + 1], x \in DmaThings,
           NEW T, AsBuilt(Past(p), unseen, T), NEW F \in DmaFails(T, x), NEW R, R = Unwind(F)
    PROVE  Unwound(R)
<1>1. /\ F \in TreeRecord
      /\ F.held = Past(p) \cap (FirstFrames \cup {Top("drv_info")})
      /\ F.misused = {y \in Past(p) : y[1] = "info"}
      /\ \A y \in Past(p) : y[1] = "info" =>
            \E i, j \in 1 .. DmaCnt : y = DmaInfo(i) /\ x = DmaInfo(j) /\ i < j
  BY DmaFailsIs
<1>2. F.misused \subseteq {DmaInfo(i) : i \in 1 .. DmaCnt - 1}
  <2> SUFFICES ASSUME NEW y \in F.misused PROVE \E i \in 1 .. DmaCnt - 1 : y = DmaInfo(i)
    OBVIOUS
  <2>1. PICK i, j \in 1 .. DmaCnt : y = DmaInfo(i) /\ i < j BY <1>1
  <2>2. i \in 1 .. DmaCnt - 1 BY <2>1, TreeAssumption
  <2>3. QED BY <2>1, <2>2
<1>3. R \in TreeRecord /\ R.held = F.held \ Frames /\ R.misused = F.misused
  BY <1>1, UnwindIs
<1>4. R.held \subseteq {Top("drv_info")} BY <1>1, <1>3, AllFrames
<1>5. QED BY <1>2, <1>3, <1>4 DEF Unwound, Stopped, ForgottenByProbe, MisusedByProbe

(* one that is not,                                                        *)
LEMMA DmaGoesOn ==
    ASSUME Counted, NEW p \in Nat, p < Len(Tree), NEW k \in 2 .. DmaCnt, Tree[p + 1] = DmaInfo(k),
           NEW T, AsBuilt(Past(p), unseen, T), NEW F \in DmaFails(T, DmaInfo(k)),
           NEW U, U = unseen \cup {DmaInfo(j) : j \in k .. DmaCnt}
    PROVE  AsBuilt(FirstFrames \cup DmaThings, U, F)
<1> DEFINE P == FirstFrames \cup DmaThings
           x == DmaInfo(k)
<1>1. k \in 1 .. DmaCnt /\ DmaCnt \in Nat BY TreeAssumption
<1>2. x \in DmaThings /\ x = Tree[p + 1] BY <1>1 DEF DmaThings
<1>3. /\ unseen = {} /\ Past(p) \subseteq P
      /\ F \in TreeRecord /\ F.refs = T.refs /\ F.cnt = T.cnt
      /\ F.held = Past(p) \cap (FirstFrames \cup {Top("drv_info")})
      /\ F.misused = {y \in Past(p) : y[1] = "info"}
      /\ \A y \in Past(p) : y[1] = "info" =>
            \E i, j \in 1 .. DmaCnt : y = DmaInfo(i) /\ x = DmaInfo(j) /\ i < j
  BY <1>2, DmaFailsIs
<1>4. U = {DmaInfo(j) : j \in k .. DmaCnt} BY <1>3
<1>5. /\ x \in U /\ x \notin NoThreads
      /\ DmaGone(U) = DmaThings \ {Top("drv_info")}
  <2>1. x \in U BY <1>1, <1>4
  <2>2. x \notin NoThreads BY DEF NoThreads, DmaInfo, Frame
  <2>3. QED BY <2>1, <2>2 DEF DmaGone
<1>6. \A y \in P : With(y) = {y} /\ Referred(y) = {} /\ y[1] \notin {"entry", "set", "dir"}
  <2> TAKE y \in P
  <2>1. y[1] \in {"frame", "buffer", "info", "infos", "top"}
    BY DEF FirstFrames, Frame, DmaThings, DmaMemory, DmaBuffer, DmaInfo, Top
  <2>2. QED BY <2>1 DEF With, Referred, Dir, FilterBuffers
<1>7. FirstFrames \cup {Top("drv_info")} \subseteq Past(p)
  <2>1. \A y \in TreeThings : y \in Past(p) \/ y = x \/ Before(x, y) BY <1>2, CreationOrder
  <2>2. Stage(x) = 4 BY DEF Stage, DmaInfo
  <2>3. ASSUME NEW y \in FirstFrames \cup {Top("drv_info")} PROVE y \in Past(p)
    <3>1. y \in TreeThings BY DEF TreeThings, DmaThings
    <3>2. Stage(y) \in {0, 1}
      <4>1. Stage(Top("drv_info")) = 1 BY DEF Stage, Top, TopStage
      <4>2. QED BY <4>1, StageBounds
    <3>3. y # x /\ ~Before(x, y) BY <2>2, <3>2 DEF Before
    <3>4. QED BY <2>1, <3>1, <3>3
  <2>4. QED BY <2>3
<1>8. F.held = Withs(P) \ Lost(U)
  <2>1. \A z : (\E y \in P : z \in With(y)) <=> z \in P BY <1>6
  <2>2. U \cap NoThreads = {} BY <1>4 DEF NoThreads, DmaInfo, Frame
  <2>3. Lost(U) = DmaThings \ {Top("drv_info")} BY <1>5, <2>2 DEF Lost
  <2>4. FirstFrames \cap DmaThings = {}
    BY DEF FirstFrames, Frame, DmaThings, DmaMemory, DmaBuffer, DmaInfo, Top
  <2>5. Top("drv_info") \in DmaThings BY DEF DmaThings
  <2>6. F.held = FirstFrames \cup {Top("drv_info")} BY <1>3, <1>7
  <2>7. P \ Lost(U) = FirstFrames \cup {Top("drv_info")} BY <2>3, <2>4, <2>5
  <2>8. \A z : z \in F.held <=> (\E y \in P : z \in With(y)) /\ z \notin Lost(U)
    BY <2>1, <2>6, <2>7
  <2>9. QED BY <2>8, WithsAre
<1>9. F.refs = Referreds(P)
  <2>1. T.refs = Referreds(Past(p)) BY DEF AsBuilt
  <2>2. Referreds(P) = {} /\ Referreds(Past(p)) = {} BY <1>3, <1>6, WithsAre
  <2>3. QED BY <1>3, <2>1, <2>2
<1>10. F.misused \subseteq Twice(U)
  <2> SUFFICES ASSUME NEW y \in F.misused PROVE y \in Twice(U) OBVIOUS
  <2>1. PICK i, j \in 1 .. DmaCnt : y = DmaInfo(i) /\ x = DmaInfo(j) /\ i < j BY <1>3
  <2>2. y[3] = i /\ x[3] = j /\ x[3] = k BY <2>1 DEF DmaInfo
  <2>3. y \notin U
    <3>1. SUFFICES ASSUME NEW l \in k .. DmaCnt, y = DmaInfo(l) PROVE FALSE BY <1>4
    <3>2. y[3] = l BY <3>1 DEF DmaInfo
    <3>3. QED BY <2>1, <2>2, <3>2
  <2>4. y \in DmaThings /\ y # Top("drv_info") BY <2>1 DEF DmaThings, DmaInfo, Top
  <2>5. QED BY <1>5, <2>3, <2>4 DEF Twice
<1>11. ASSUME NEW g \in Groups PROVE EntriesCounted(P, F, g)
  <2>1. \A j : Entry(g, j)[1] = "entry" BY DEF Entry
  <2>2. \A j \in Nat : Entry(g, j) \notin P BY <1>6, <2>1
  <2>3. EntriesCounted(Past(p), T, g) BY DEF AsBuilt
  <2>4. T.cnt[g] = 0
    <3>1. SUFFICES ASSUME NEW l \in Nat, \A j \in Nat : Entry(g, j) \in Past(p) <=> j <= l
                   PROVE  FALSE
      BY <2>3 DEF EntriesCounted
    <3>2. Entry(g, l) \in P BY <1>3, <3>1
    <3>3. QED BY <2>2, <3>2
  <2>5. QED BY <1>3, <2>2, <2>4 DEF EntriesCounted
<1>12. Unseen(P, U)
  <2>1. k .. DmaCnt \subseteq 1 .. DmaCnt BY <1>1
  <2>2. QED BY <1>4, <2>1 DEF Unseen, DmaThings
<1>13. QED BY <1>3, <1>8, <1>9, <1>10, <1>11, <1>12 DEF AsBuilt

(* a failure of kthread_run,                                               *)
LEMMA ThreadGoesOn ==
    ASSUME Counted, NEW p \in Nat, p < Len(Tree), Tree[p + 1] = Frame("thread"),
           NEW T, AsBuilt(Past(p), unseen, T), NEW U, U = unseen \cup {Frame("thread")}
    PROVE  AsBuilt(Past(p + 1), U, T)
<1> DEFINE x == Frame("thread")
<1>1. Past(p + 1) = Past(p) \cup {x} BY CreationOrder
<1>2. p = Len(BeforeThread) /\ Past(p) = FirstFrames \cup DmaThings BY ThreadPlace
<1>3. With(x) = {x} /\ Referred(x) = {} /\ x[1] = "frame"
  BY DEF With, Referred, Frame, Dir, FilterBuffers
<1>4. Unseen(Past(p), unseen) BY DEF AsBuilt
<1>5. DmaGone(U) = DmaGone(unseen) BY DEF DmaGone, NoThreads
<1>6. x \notin unseen /\ x \notin Past(p)
  <2>1. x \notin FirstFrames \cup DmaThings
    BY <1>3 DEF FirstFrames, Frame, PciNames, RegisterNames, DmaThings, DmaMemory,
       DmaBuffer, DmaInfo, Top
  <2>2. QED BY <1>2, <1>4, <2>1 DEF Unseen
<1>7. \A y \in Past(p) : x \notin With(y)
  <2> TAKE y \in Past(p)
  <2>1. \A n : Array(n)[1] = "array" /\ InfoMemory[1] = "memory" BY DEF Array, InfoMemory
  <2>2. QED BY <1>3, <1>6, <2>1 DEF With
<1>8. T.held = Withs(Past(p + 1)) \ Lost(U)
  <2>1. \A z : (\E y \in Past(p + 1) : z \in With(y)) <=> (\E y \in Past(p) : z \in With(y)) \/ z = x
    BY <1>1, <1>3
  <2>2. Lost(U) = Lost(unseen) \cup {x} BY <1>5 DEF Lost, NoThreads
  <2>3. \A z : z \in T.held <=> (\E y \in Past(p) : z \in With(y)) /\ z \notin Lost(unseen)
    BY WithsAre DEF AsBuilt
  <2>4. \A z : z \in T.held <=> (\E y \in Past(p + 1) : z \in With(y)) /\ z \notin Lost(U)
    BY <1>7, <2>1, <2>2, <2>3
  <2>5. QED BY <2>4, WithsAre
<1>9. T.refs = Referreds(Past(p + 1))
  <2>1. T.refs = Referreds(Past(p)) BY DEF AsBuilt
  <2>2. \A z : (\E y \in Past(p + 1) : z \in Referred(y)) <=> \E y \in Past(p) : z \in Referred(y)
    BY <1>1, <1>3
  <2>3. \A z : z \in Referreds(Past(p + 1)) <=> z \in Referreds(Past(p)) BY <2>2, WithsAre
  <2>4. Referreds(Past(p + 1)) = Referreds(Past(p)) BY <2>3
  <2>5. QED BY <2>1, <2>4
<1>10. T.misused \subseteq Twice(U)
  <2>1. x \notin DmaGone(unseen)
    BY <1>3 DEF DmaGone, DmaThings, DmaMemory, DmaBuffer, DmaInfo, Top
  <2>2. Twice(U) = Twice(unseen) BY <1>5, <2>1 DEF Twice
  <2>3. QED BY <2>2 DEF AsBuilt
<1>11. ASSUME NEW g \in Groups PROVE EntriesCounted(Past(p + 1), T, g)
  <2>1. \A j : Entry(g, j) # x BY DEF Entry, Frame
  <2>2. \A j \in Nat : Entry(g, j) \in Past(p + 1) <=> Entry(g, j) \in Past(p) BY <1>1, <2>1
  <2>3. EntriesCounted(Past(p), T, g) BY DEF AsBuilt
  <2>4. QED BY <2>2, <2>3 DEF EntriesCounted
<1>12. Unseen(Past(p + 1), U) BY <1>1, <1>2, <1>4 DEF Unseen, NoThreads
<1>13. QED BY <1>8, <1>9, <1>10, <1>11, <1>12 DEF AsBuilt

(* and a failure anywhere that is seen.                                    *)
LEMMA FailedUnwound ==
    ASSUME Counted, NEW p \in Nat, p < Len(Tree), NEW x, x = Tree[p + 1], x # Frame("thread"),
           NEW T, AsBuilt(Past(p), unseen, T), \A y \in Past(p) : y[1] # "absent",
           NEW R \in Failed(T, x)
    PROVE  /\ Stopped(R)
           /\ x \in Built(BeforeThread) \/ HasThread(T) => Unwound(R)
<1>1. /\ x \in TreeThings
      /\ \A y \in Past(p) : y \in TreeThings /\ Before(y, x)
      /\ \A y \in TreeThings : y \in Past(p) \/ y = x \/ Before(x, y)
  BY CreationOrder
<1>2. T \in TreeRecord BY DEF AsBuilt
<1>3. Stage(x) \in Nat /\ \A y \in Past(p) : Stage(y) \in Nat /\ Stage(y) <= Stage(x)
  BY <1>1, EarlyThings DEF Before
<1>4. CASE x \in DmaThings
  <2>1. \E F \in DmaFails(T, x) : R = Unwind(F) BY <1>4, DmaChunk DEF Failed
  <2>2. Unwound(R) BY <1>4, <2>1, DmaUnwound
  <2>3. QED BY <2>2 DEF Unwound
<1>5. CASE x \in FirstFrames
  <2>1. Stage(x) = 0 BY <1>5, StageBounds
  <2>2. x \notin DmaThings BY <1>5, <2>1, StageBounds
  <2>3. R = Unwind(T) BY <1>5, <2>2, DmaChunk, FramesChunk DEF Failed
  <2>4. Past(p) \subseteq FirstFrames BY <1>1, <1>3, <2>1, EarlyThings
  <2>5. T.held \subseteq Past(p) BY <2>4, EarlyHeld, AllFrames
  <2>6. R \in TreeRecord /\ R.held = T.held \ Frames /\ R.misused = T.misused
    BY <1>2, <2>3, UnwindIs
  <2>7. R.held = {} BY <2>4, <2>5, <2>6, AllFrames
  <2>8. R.misused \subseteq MisusedByProbe BY <2>6 DEF AsBuilt, MisusedByProbe
  <2>9. QED BY <2>6, <2>7, <2>8 DEF Stopped, Unwound
<1>6. CASE x \in {Frame(n) : n \in BringUpNames}
  <2>1. Stage(x) = 5 BY <1>6, StageBounds
  <2>2. x \notin DmaThings /\ x \notin FirstFrames BY <2>1, StageBounds
  <2>3. R = GiveUp(T)
    BY <1>6, <2>2, DmaChunk, FramesChunk, BringUpChunk DEF Failed
  <2>4. Past(p) \subseteq Frames \cup DmaThings BY <1>1, <1>3, <2>1, EarlyThings
  <2>5. T.held \subseteq Past(p) BY <2>4, EarlyHeld
  <2>6. DmaThings \subseteq Past(p)
    <3> SUFFICES ASSUME NEW y \in DmaThings, y \notin Past(p) PROVE FALSE OBVIOUS
    <3>1. y \in TreeThings BY DEF TreeThings
    <3>2. Stage(y) \in Nat /\ Stage(y) <= 4 BY <3>1, EarlyThings, StageBounds
    <3>3. ~Before(x, y) BY <2>1, <3>2 DEF Before
    <3>4. QED BY <1>1, <2>2, <3>1, <3>3
  <2>7. DmaFreed \ T.held \subseteq Twice(unseen) /\ T.misused \subseteq Twice(unseen)
    BY <2>6, BuiltHeld
  <2>8. x \notin Built(BeforeThread) BY <2>2, ThreadPlace
  <2>9. Twice(unseen) \subseteq MisusedByProbe BY DEF MisusedByProbe
  <2>10. CASE HasThread(T)
    <3> DEFINE F == netana_free_dma(T)
    <3>1. /\ F \in TreeRecord /\ F.held = T.held \ DmaFreed
          /\ F.misused = T.misused \cup (DmaFreed \ T.held)
      BY <1>2, FreeDmaIs
    <3>2. R = Unwind(F) BY <2>3, <2>10 DEF GiveUp
    <3> HIDE DEF F
    <3>3. R \in TreeRecord /\ R.held = F.held \ Frames /\ R.misused = F.misused
      BY <3>1, <3>2, UnwindIs
    <3>4. ASSUME NEW y \in R.held PROVE FALSE
      <4>1. y \in DmaThings /\ y \in T.held /\ y \in unseen
        BY <2>4, <2>5, <3>1, <3>3, <3>4 DEF DmaFreed
      <4>2. y \notin Lost(unseen) /\ Unseen(Past(p), unseen) BY <4>1, BuiltHeld DEF AsBuilt
      <4>3. y # Top("drv_info") /\ y \notin NoThreads
        BY <4>1, <4>2 DEF Unseen, DmaInfo, Top, Frame, NoThreads, Lost
      <4>4. QED BY <4>1, <4>2, <4>3 DEF Lost, DmaGone
    <3>5. R.held = {} /\ R.misused \subseteq MisusedByProbe
      BY <2>7, <2>9, <3>1, <3>3, <3>4
    <3>6. QED BY <3>3, <3>5 DEF Unwound, Stopped
  <2>11. CASE ~HasThread(T)
    <3>1. R = stop_dsr_thread(T) BY <2>3, <2>11 DEF GiveUp
    <3>2. R \in TreeRecord /\ R.misused \subseteq T.misused \cup {Frame("thread")}
      BY <1>2, <3>1, ThreadStopped
    <3>3. Frame("thread") \in Past(p)
      <4>2. x = Frame("toolkit") BY <1>6 DEF BringUpNames
      <4>3. QED BY <4>2, ThreadPlace
    <3>4. Frame("thread") \in MisusedByProbe
      <4>1. Frame("thread") \in unseen BY <2>11, <3>3, BuiltHeld DEF HasThread
      <4>2. QED BY <4>1 DEF MisusedByProbe, NoThreads
    <3>5. R.misused \subseteq MisusedByProbe BY <2>7, <2>9, <3>2, <3>4
    <3>6. QED BY <2>8, <2>11, <3>2, <3>5 DEF Stopped
  <2>12. QED BY <2>10, <2>11
<1>7. CASE x \in SysfsThings
  <2>1. 6 <= Stage(x) BY <1>7, StageBounds
  <2>2. x \notin DmaThings /\ x \notin FirstFrames /\ x \notin {Frame(n) : n \in BringUpNames}
    BY <1>3, <2>1, StageBounds
  <2>3. PICK S \in SysfsFails(T, x) : R = GiveUp(TopDirs(clean_up_sysfs(S)))
    BY <2>2, DmaChunk, FramesChunk, BringUpChunk DEF Failed
  <2>4. Ready(S) BY <1>7, SysfsFailsReady
  <2>5. Stopped(R) /\ (Frame("thread") \in S.held => Unwound(R)) BY <2>3, <2>4, ReadyUnwinds
  <2>6. x \notin Built(BeforeThread) BY <2>2, ThreadPlace
  <2>7. HasThread(T) => Frame("thread") \in S.held
    <3>1. ASSUME HasThread(T) PROVE Frame("thread") \notin unseen
      <4>1. Frame("thread") \notin Lost(unseen) BY <3>1, BuiltHeld DEF HasThread
      <4>2. QED BY <4>1 DEF Lost, NoThreads
    <3>2. QED BY <2>4, <3>1 DEF Ready
  <2>8. QED BY <2>5, <2>6, <2>7
<1>8. QED BY <1>1, <1>4, <1>5, <1>6, <1>7 DEF TreeThings

-----------------------------------------------------------------------------

(* The inductive invariant.                                                *)
Over == mode \in {"absent", "oops"} \/ (mode = "bound" /\ pos < Len(Tree))
TreeInv ==
    /\ Counted /\ pos \in 0 .. Len(Tree) /\ mode \in {"building", "bound", "absent", "oops"}
    /\ ~Over => AsBuilt(Past(pos), unseen, tree) /\ \A y \in Past(pos) : y[1] # "absent"
    /\ Over /\ pos < Len(Tree) => Stopped(tree) /\ (mode # "oops" => Unwound(tree))
    /\ Over /\ pos = Len(Tree) =>
         /\ tree.misused \subseteq FilterUnread \cup Twice(unseen) \cup (unseen \cap NoThreads)
         /\ mode # "oops" => tree.held \subseteq FirstEntries \cup {InfoMemory}

(* The device stays the same, and with it everything derived from it.      *)
LEMMA SameTree == ASSUME device' = device PROVE Tree' = Tree
BY DEF Tree, netana_create_sysfsentries, nasysfs_create_filter_dir, nasysfs_create_gpio_dir,
       nasysfs_create_port_dir, nasysfs_create_phy_dir, PciFrames, RegisterFrames,
       netana_create_dma, BringUp, DeviceInformation, DeviceControl

LEMMA SamePast == ASSUME device' = device PROVE Past(pos)' = Past(pos')
BY SameTree DEF Past

LEMMA SameBuilt ==
    ASSUME device' = device
    PROVE  AsBuilt(Past(pos), unseen, tree)' <=> AsBuilt(Past(pos'), unseen', tree')
BY SamePast DEF AsBuilt, EntriesCounted, Count

LEMMA SameCounted ==
    ASSUME device' = device PROVE FilterUnread' = FilterUnread /\ (Counted' <=> Counted)
BY DEF FilterUnread, Counted

LEMMA SameUnwound ==
    ASSUME device' = device, unseen' = unseen
    PROVE  /\ Unwound(tree)' <=> Unwound(tree')
           /\ Stopped(tree)' <=> Stopped(tree')
BY DEF Unwound, Stopped, ForgottenByProbe, MisusedByProbe, FilterUnread, LastGpios

LEMMA InitTree == Init => TreeInv
<1> SUFFICES ASSUME Init PROVE TreeInv OBVIOUS
<1>1. Counted
  <2>1. device.gpios \in GpioCnts /\ device.ports \in PortCnts BY DEF Init
  <2>2. QED BY <2>1, TreeAssumption DEF Counted
<1>2. Past(0) = {} /\ Len(Tree) \in Nat BY <1>1, PastEnds
<1>3. AsBuilt({}, {}, NoTree)
  <2>1. NoTree \in TreeRecord BY DEF NoTree, TreeRecord
  <2>2. /\ NoTree.held = {} /\ NoTree.refs = {} /\ NoTree.misused = {}
        /\ \A g \in Groups : NoTree.cnt[g] = 0
    BY DEF NoTree
  <2>3. \A g \in Groups : EntriesCounted({}, NoTree, g) BY <2>2 DEF EntriesCounted
  <2>4. Withs({}) = {} /\ Referreds({}) = {} BY WithsAre
  <2>5. QED BY <2>1, <2>2, <2>3, <2>4 DEF AsBuilt, Unseen
<1>4. ~Over BY DEF Over, Init
<1>5. pos = 0 /\ tree = NoTree /\ mode = "building" /\ unseen = {} BY DEF Init
<1>6. AsBuilt(Past(pos), unseen, tree) /\ \A y \in Past(pos) : y[1] # "absent" BY <1>2, <1>3, <1>5
<1>7. QED BY <1>1, <1>2, <1>4, <1>5, <1>6 DEF TreeInv

LEMMA NextTree == TreeInv /\ [Next]_vars => TreeInv'
<1> SUFFICES ASSUME TreeInv, [Next]_vars PROVE TreeInv' OBVIOUS
<1>1. device' = device BY DEF Next, Create, Fail, NoThread, NoInfo, Remove, vars
<1>2. Tree' = Tree /\ Past(pos)' = Past(pos') /\ Counted' /\ Counted
      /\ FilterUnread' = FilterUnread
  BY <1>1, SameTree, SamePast, SameCounted DEF TreeInv
<1>3. Len(Tree) \in Nat /\ Past(Len(Tree)) = TreeThings BY <1>2, PastEnds
<1>4. pos \in Nat /\ pos <= Len(Tree) BY <1>3 DEF TreeInv
<1>5. CASE Create
  <2> DEFINE x == Tree[pos + 1]
  <2>1. /\ pos < Len(Tree) /\ mode = "building" /\ x[1] # "absent" /\ pos' = pos + 1
        /\ unseen' = unseen
    BY <1>5 DEF Create
  <2>2. tree' = Created(tree, x) BY <1>5 DEF Create, Created
  <2>3. AsBuilt(Past(pos), unseen, tree) /\ \A y \in Past(pos) : y[1] # "absent"
    BY <2>1 DEF TreeInv, Over
  <2>4. x = Tree[pos + 1] OBVIOUS
  <2> HIDE DEF x
  <2>5. AsBuilt(Past(pos + 1), unseen, tree')
    BY <1>2, <1>4, <2>1, <2>2, <2>3, <2>4, CreateKeeps
  <2>6. Past(pos + 1) = Past(pos) \cup {x} BY <1>2, <1>4, <2>1, <2>4, CreationOrder
  <2>7. AsBuilt(Past(pos), unseen, tree)' BY <1>1, <2>1, <2>5, SameBuilt
  <2>8. (\A y \in Past(pos) : y[1] # "absent")' BY <1>2, <2>1, <2>3, <2>6
  <2>9. mode' = IF pos' = Len(Tree') THEN "bound" ELSE "building"
    BY <1>2, <1>5 DEF Create
  <2>10. ~Over' BY <1>2, <1>3, <2>9 DEF Over
  <2>11. pos' \in 0 .. Len(Tree') BY <1>2, <1>3, <1>4, <2>1
  <2>12. QED BY <1>2, <2>7, <2>8, <2>9, <2>10, <2>11 DEF TreeInv
<1>6. CASE Fail
  <2> DEFINE x == Tree[pos + 1]
  <2>1. /\ pos < Len(Tree) /\ mode = "building" /\ pos' = pos /\ unseen' = unseen
        /\ x # Frame("thread") /\ tree' \in Failed(tree, x)
    BY <1>6 DEF Fail
  <2>2. AsBuilt(Past(pos), unseen, tree) /\ \A y \in Past(pos) : y[1] # "absent"
    BY <2>1 DEF TreeInv, Over
  <2>3. mode' = IF TakenForSuccess(x) THEN "bound"
                ELSE IF x \in Built(BeforeThread) \/ HasThread(tree) THEN "absent" ELSE "oops"
    BY <1>6 DEF Fail
  <2>4. x = Tree[pos + 1] OBVIOUS
  <2> HIDE DEF x
  <2>5. /\ Stopped(tree')
        /\ x \in Built(BeforeThread) \/ HasThread(tree) => Unwound(tree')
    BY <1>2, <1>4, <2>1, <2>2, <2>4, FailedUnwound
  <2>6. TakenForSuccess(x) => x \in Built(BeforeThread)
    BY <1>2, ThreadPlace DEF TakenForSuccess, FirstFrames, PciNames, RegisterNames
  <2>7. Stopped(tree') /\ (mode' # "oops" => Unwound(tree')) BY <2>3, <2>5, <2>6
  <2>8. Stopped(tree)' /\ (mode' # "oops" => Unwound(tree)') BY <1>1, <2>1, <2>7, SameUnwound
  <2>9. mode' \in {"bound", "absent", "oops"} BY <2>3
  <2>10. Over' BY <1>2, <2>1, <2>9 DEF Over
  <2>11. QED BY <1>2, <1>3, <1>4, <2>1, <2>8, <2>9, <2>10 DEF TreeInv
<1>7. CASE NoThread
  <2>1. /\ pos < Len(Tree) /\ mode = "building" /\ Tree[pos + 1] = Frame("thread")
        /\ pos' = pos + 1 /\ unseen' = unseen \cup {Frame("thread")}
        /\ mode' = mode /\ tree' = tree
    BY <1>7 DEF NoThread
  <2>2. AsBuilt(Past(pos), unseen, tree) /\ \A y \in Past(pos) : y[1] # "absent"
    BY <2>1 DEF TreeInv, Over
  <2>3. AsBuilt(Past(pos + 1), unseen', tree) BY <1>2, <1>4, <2>1, <2>2, ThreadGoesOn
  <2>4. AsBuilt(Past(pos), unseen, tree)' BY <1>1, <2>1, <2>3, SameBuilt
  <2>5. Past(pos + 1) = Past(pos) \cup {Frame("thread")} BY <1>2, <1>4, <2>1, CreationOrder
  <2>6. (\A y \in Past(pos) : y[1] # "absent")' BY <1>2, <2>1, <2>2, <2>5 DEF Frame
  <2>7. ~Over' /\ pos' \in 0 .. Len(Tree') BY <1>2, <1>3, <1>4, <2>1 DEF Over
  <2>8. QED BY <1>2, <2>1, <2>4, <2>6, <2>7 DEF TreeInv
<1>8. CASE NoInfo
  <2>1. PICK k \in 2 .. DmaCnt : /\ Tree[pos + 1] = DmaInfo(k)
                                 /\ tree' \in DmaFails(tree, DmaInfo(k))
                                 /\ unseen' = unseen \cup {DmaInfo(j) : j \in k .. DmaCnt}
    BY <1>8 DEF NoInfo
  <2>2. pos < Len(Tree) /\ mode = "building" /\ mode' = mode /\ pos' = Len(BeforeThread)
    BY <1>8 DEF NoInfo
  <2>3. AsBuilt(Past(pos), unseen, tree) BY <2>2 DEF TreeInv, Over
  <2>4. AsBuilt(FirstFrames \cup DmaThings, unseen', tree')
    BY <1>2, <1>4, <2>1, <2>2, <2>3, DmaGoesOn
  <2>5. Past(pos') = FirstFrames \cup DmaThings /\ pos' \in Nat /\ pos' < Len(Tree)
    BY <1>2, <2>2, ThreadPlace
  <2>6. AsBuilt(Past(pos), unseen, tree)' BY <1>1, <2>4, <2>5, SameBuilt
  <2>7. \A y \in FirstFrames \cup DmaThings : y[1] # "absent"
    BY DEF FirstFrames, Frame, DmaThings, DmaMemory, DmaBuffer, DmaInfo, Top
  <2>8. (\A y \in Past(pos) : y[1] # "absent")' BY <1>2, <2>5, <2>7
  <2>9. ~Over' /\ pos' \in 0 .. Len(Tree') BY <1>2, <1>3, <2>2, <2>5 DEF Over
  <2>10. QED BY <1>2, <2>2, <2>6, <2>8, <2>9 DEF TreeInv
<1>9. CASE Remove
  <2>1. /\ mode = "bound" /\ mode' \in {"absent", "oops"} /\ pos' = pos /\ unseen' = unseen
        /\ pos # Len(Tree) => mode' = "absent"
    BY <1>9 DEF Remove
  <2>2. CASE pos = Len(Tree)
    <3> DEFINE P == TreeThings
    <3>1. AsBuilt(P, unseen, tree) /\ \A y \in P : y[1] # "absent"
      BY <1>3, <2>1, <2>2 DEF TreeInv, Over
    <3>2. Prefix(P) BY DEF Prefix
    <3>3. \A g \in Groups : Neat(tree, g) BY <1>2, <3>1, <3>2, BuiltNeat
    <3>4. tree' = netana_unregisterdevice(tree)
          /\ mode' = IF HasThread(tree) THEN "absent" ELSE "oops"
      BY <1>9, <2>2 DEF Remove
    <3>5. tree \in TreeRecord BY <3>1 DEF AsBuilt
    <3>6. DmaThings \subseteq P /\ Frame("thread") \in P
      BY DEF TreeThings, BringUpNames
    <3>7. /\ DmaFreed \ tree.held \subseteq Twice(unseen) /\ tree.misused \subseteq Twice(unseen)
          /\ Frame("thread") \in tree.held <=> Frame("thread") \notin unseen
      BY <3>1, <3>6, BuiltHeld
    <3>8. ASSUME HasThread(tree)
          PROVE  /\ tree'.misused \subseteq FilterUnread \cup Twice(unseen) \cup (unseen \cap NoThreads)
                 /\ tree'.held \subseteq FirstEntries \cup {InfoMemory}
      <4>1. tree' = Unwind(TopDirs(clean_up_sysfs(netana_free_dma(tree))))
        BY <3>4, <3>8 DEF netana_unregisterdevice
      <4>2. /\ tree'.held = Rest(tree)
            /\ tree'.misused \subseteq tree.misused \cup (Dirs(tree) \ tree.held) \cup FilterUnread
                                         \cup (DmaFreed \ tree.held)
        BY <3>3, <3>5, <4>1, RemovalUnwound
      <4>3. Dirs(tree) \subseteq tree.held BY <3>1, BuiltDirs
      <4>4. Rest(tree) \subseteq FirstEntries \cup {InfoMemory} \cup GpioRest(P) \cup FilterRest(P)
        BY <1>2, <3>1, <3>2, BuiltRest
      <4>5. GpioRest(P) = {}
        <5>1. device.gpios \in Nat BY <1>2 DEF Counted
        <5>2. CASE device.gpios = 0 BY <5>2 DEF GpioRest
        <5>3. CASE device.gpios # 0
          <6>1. "gpio" \in Groups /\ device.gpios < EntryCount("gpio")
            BY <5>1, <5>3 DEF Groups, EntryCount
          <6>2. Entry("gpio", device.gpios) \in P BY <1>2, <5>1, <6>1, EntryInTree
          <6>3. QED BY <6>2 DEF GpioRest
        <5>4. QED BY <5>2, <5>3
      <4>6. FilterRest(P) = {}
        <5>1. Set("filter") \in P \/ Array("filter") \in P => FilterBuffers \in P
          BY <1>2, FilterInTree
        <5>2. QED BY <5>1 DEF FilterRest
      <4>7. /\ tree'.held \subseteq FirstEntries \cup {InfoMemory}
            /\ tree'.misused \subseteq FilterUnread \cup Twice(unseen)
        BY <3>7, <4>2, <4>3, <4>4, <4>5, <4>6
      <4>8. QED BY <4>7
    <3>9. ASSUME ~HasThread(tree)
          PROVE  /\ tree'.misused \subseteq FilterUnread \cup Twice(unseen) \cup (unseen \cap NoThreads)
                 /\ mode' = "oops"
      <4>1. mode' = "oops" /\ tree' = stop_dsr_thread(tree)
        BY <3>4, <3>9 DEF netana_unregisterdevice
      <4>2. tree'.misused \subseteq tree.misused \cup {Frame("thread")}
        BY <3>5, <4>1, ThreadStopped
      <4>3. Frame("thread") \in unseen \cap NoThreads BY <3>7, <3>9 DEF HasThread, NoThreads
      <4>4. QED BY <3>7, <4>1, <4>2, <4>3
    <3>10. /\ tree'.misused \subseteq FilterUnread \cup Twice(unseen) \cup (unseen \cap NoThreads)
           /\ mode' # "oops" => tree'.held \subseteq FirstEntries \cup {InfoMemory}
      BY <3>8, <3>9
    <3>11. QED BY <1>2, <1>3, <2>1, <2>2, <3>10 DEF TreeInv, Over
  <2>3. CASE pos # Len(Tree)
    <3>1. pos < Len(Tree) BY <1>3, <1>4, <2>3
    <3>2. Unwound(tree) BY <2>1, <3>1 DEF TreeInv, Over
    <3> DEFINE X == {Frame("regions"), Frame("enabled"), Frame("info")}
    <3>3. tree' = Use(tree, X) BY <1>9, <2>3 DEF Remove
    <3>4. X \in SUBSET Things BY DEF Frame, Things, Kinds, Names, PciNames
    <3>5. X \subseteq MisusedByProbe BY DEF MisusedByProbe
    <3> HIDE DEF X
    <3>6. /\ tree' \in TreeRecord /\ tree'.held = tree.held
          /\ tree'.misused = tree.misused \cup (X \ tree.held)
      BY <3>2, <3>3, <3>4, UseIs DEF Unwound, Stopped
    <3>7. Unwound(tree') BY <3>2, <3>5, <3>6 DEF Unwound, Stopped
    <3>8. Unwound(tree)' /\ Stopped(tree)' BY <1>1, <2>1, <3>7, SameUnwound DEF Unwound
    <3>9. QED BY <1>2, <1>3, <1>4, <2>1, <3>1, <3>8 DEF TreeInv, Over
  <2>4. QED BY <2>2, <2>3
<1>10. CASE UNCHANGED vars
  <2>1. mode' = mode /\ pos' = pos /\ tree' = tree /\ unseen' = unseen BY <1>10 DEF vars
  <2>2. Over' <=> Over BY <1>2, <2>1 DEF Over
  <2>3. AsBuilt(Past(pos), unseen, tree)' <=> AsBuilt(Past(pos), unseen, tree)
    BY <1>1, <2>1, SameBuilt
  <2>4. (Unwound(tree)' <=> Unwound(tree)) /\ (Stopped(tree)' <=> Stopped(tree))
    BY <1>1, <2>1, SameUnwound
  <2>5. (\A y \in Past(pos) : y[1] # "absent")' <=> \A y \in Past(pos) : y[1] # "absent"
    BY <1>2, <2>1
  <2>6. QED BY <1>2, <2>1, <2>2, <2>3, <2>4, <2>5 DEF TreeInv
<1>11. QED BY <1>5, <1>6, <1>7, <1>8, <1>9, <1>10 DEF Next

(* While no failure was seen, what is held, referred to and counted is     *)
(* what netana_pci_probe, netana_registerdevice and                        *)
(* netana_create_sysfsentries have built so far, less the thread that      *)
(* kthread_run did not create and what netana_create_dma gave back before  *)
(* it returned 0; after a failure that was seen or netana_pci_remove, no   *)
(* more is left and misused than what is named, unless kthread_stop got    *)
(* the error pointer.                                                      *)
THEOREM TreeInvariant == Spec => []TreeInv
<1> QED BY InitTree, NextTree, PTL DEF Spec

(* Whatever creation of netana_pci_probe, netana_registerdevice,           *)
(* netana_create_dma or netana_create_sysfsentries fails, seen or not, and *)
(* after netana_pci_remove, everything but the objects of Forgotten is     *)
(* given back, for every number of GPIOs, ports and DMA buffers, provided  *)
(* that the probe or the removal comes to its end: without a DSR thread    *)
(* it does not get beyond kthread_stop.                                    *)
THEOREM AllIsGivenBack == Spec => []NothingElseLeft
<1>1. TreeInv => NothingElseLeft
  <2> SUFFICES ASSUME TreeInv, mode = "absent" PROVE tree.held \subseteq Forgotten
    BY DEF NothingElseLeft
  <2>1. Over BY DEF Over
  <2>2. Len(Tree) \in Nat BY PastEnds DEF TreeInv
  <2>3. CASE pos = Len(Tree)
    <3>1. tree.held \subseteq FirstEntries \cup {InfoMemory} BY <2>1, <2>3 DEF TreeInv
    <3>2. QED BY <3>1 DEF Forgotten
  <2>4. CASE pos # Len(Tree)
    <3>1. pos < Len(Tree) BY <2>2, <2>4 DEF TreeInv
    <3>2. tree.held \subseteq ForgottenByProbe BY <2>1, <3>1 DEF TreeInv, Unwound
    <3>3. ForgottenByProbe = Forgotten BY <2>4 DEF ForgottenByProbe, Forgotten, LastGpios
    <3>4. QED BY <3>2, <3>3
  <2>5. QED BY <2>3, <2>4
<1>2. QED BY <1>1, TreeInvariant, PTL

(* The error paths of the same functions, clean_up_sysfs and               *)
(* netana_pci_remove give nothing back twice and use nothing that is no    *)
(* more, but for the objects of KnownMisuse: after a failure of            *)
(* netana_create_dma that was taken for a success these are all that it    *)
(* had created, after one of kthread_run the error pointer.                *)
THEOREM NothingIsGivenBackTwice == Spec => []GivenBackOnce
<1>1. TreeInv => GivenBackOnce
  <2> SUFFICES ASSUME TreeInv PROVE tree.misused \subseteq KnownMisuse
    BY DEF GivenBackOnce
  <2>1. Len(Tree) \in Nat BY PastEnds DEF TreeInv
  <2> DEFINE M == FilterUnread \cup (unseen \cap NoThreads) \cup Twice(unseen)
  <2>2. M \subseteq KnownMisuse
    <3>1. Twice(unseen) = IF unseen \subseteq NoThreads THEN {}
                          ELSE Built(netana_create_dma) \ ({Top("drv_info")} \cup unseen)
      BY DmaChunk DEF Twice, DmaGone
    <3>2. QED BY <3>1 DEF KnownMisuse, FilterUnread, NoThreads
  <2>3. CASE ~Over
    <3>1. tree.misused \subseteq Twice(unseen) BY <2>3 DEF TreeInv, AsBuilt
    <3>2. QED BY <2>2, <3>1
  <2>4. CASE Over /\ pos = Len(Tree)
    <3>1. tree.misused \subseteq M BY <2>4 DEF TreeInv
    <3>2. QED BY <2>2, <3>1
  <2>5. CASE Over /\ pos # Len(Tree)
    <3>1. pos < Len(Tree) BY <2>1, <2>5 DEF TreeInv
    <3>2. tree.misused \subseteq MisusedByProbe BY <2>5, <3>1 DEF TreeInv, Stopped
    <3>3. MisusedByProbe \subseteq KnownMisuse
      <4>1. MisusedByProbe = M \cup {Dir("dev_info"), Dir("mbx")}
                               \cup {Frame("info"), Frame("regions"), Frame("enabled")}
                               \cup {DmaInfo(i) : i \in 1 .. DmaCnt - 1}
        BY DEF MisusedByProbe
      <4>2. QED BY <2>2, <2>5, <4>1 DEF KnownMisuse
    <3>4. QED BY <3>2, <3>3
  <2>6. QED BY <2>3, <2>4, <2>5
<1>2. QED BY <1>1, TreeInvariant, PTL

===============================================================================

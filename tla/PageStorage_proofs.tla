------------------------- MODULE PageStorage_proofs -------------------------
(* Theorems about PageStorage, for every size of memory and page and every *)
(* bound on blocks, boots and faults.                                      *)
EXTENDS PageStorage, WellFoundedInduction, TLAPS

(***************************************************************************)
(* The inductive invariant.                                                *)
(***************************************************************************)

InHand == writer.stage \in {"aqured", "writing"}

\* No chunk holds a block that has not been recorded.
HoldsRecorded == \A p \in Pages, c \in Chunks : flash[p][c] <= recorded

\* Outside recorder mode there is no page in hand, and outside USB mode no clear.
ModesApart ==
    /\ mode # "recorder" => writer = IdleWriter
    /\ eraser # "none" => mode = "usb" /\ erasing
    /\ eraser = "first" => doomed = recorded

\* The page in hand is the one found last and gets the youngest block, of which
\* nothing is in the memory but the chunks written so far; its header is that
\* of no other block.
PageInHand ==
    InHand =>
      /\ writer.block = recorded /\ writer.block \in Blocks
      /\ cache = writer.dest /\ writer.next = writer.dest + 1
      /\ writer.stage = "aqured" => writer.chunk = 1
      /\ flash[writer.dest][1] \in {Blank, Torn, Scratched, writer.block}
      /\ \A p \in Pages, c \in Chunks :
           flash[p][c] = writer.block => p = writer.dest /\ c < writer.chunk

\* A page that is remembered and not yet used reads erased.
CacheFresh ==
    /\ mode # "off" => cache # Undefined
    /\ mode = "recorder" /\ cache \in Pages /\ writer.next <= cache
         => HeaderBlank(cache)

\* The headers written in this boot lie below what is searched next, in the
\* order of their blocks.
HeadersInOrder ==
    mode = "recorder" =>
      \A p \in Pages : begun < flash[p][1] =>
        /\ p < writer.next
        /\ InHand => p < writer.dest \/ flash[p][1] = writer.block
        /\ \A q \in Pages : flash[p][1] < flash[q][1] => p < q

\* Without faults no page below the one searched or written reads erased, and
\* none below one written since the last clear.
NoneSkipped ==
    faults = 0 =>
      /\ ~failure
      /\ mode = "recorder" =>
           /\ \A p \in Pages : HeaderBlank(p) =>
                /\ writer.stage = "idle" => writer.next <= p
                /\ InHand => writer.dest <= p
                /\ writer.stage = "writing" /\ p = writer.dest => writer.chunk = 1
                /\ writer.stage # "halted"
                /\ cache # FullUsed
                /\ cache \in Pages => cache <= p
      /\ \A p, q \in Pages : doomed < flash[p][1] /\ HeaderBlank(q) => p < q
      /\ mode = "usb" /\ cache # FullUsed =>
           \A p \in Pages : doomed < flash[p][1] => p < cache

Inv ==
    /\ HoldsRecorded
    /\ ModesApart
    /\ PageInHand
    /\ CacheFresh
    /\ HeadersInOrder
    /\ NoneSkipped

-----------------------------------------------------------------------------
(* The search for an empty page *)

\* A set of pages that is not empty has a lowest one.
LEMMA LowestPage ==
  ASSUME NEW ps \in SUBSET Pages, ps # {}
  PROVE  Lowest(ps) \in ps /\ \A q \in ps : Lowest(ps) <= q
<1>. DEFINE R == OpToRel(<, Nat)
<1>1. ps \subseteq Nat
  BY StorageAssumption DEF Pages
<1>2. PICK p \in ps : \A q \in ps : <<q, p>> \notin R
  <2>. HIDE DEF R
  <2>. QED
    BY <1>1, NatLessThanWellFounded, WFMin DEF R
<1>3. ASSUME NEW q \in ps
      PROVE  p <= q
  <2>1. p \in Nat /\ q \in Nat /\ <<q, p>> \notin R
    BY <1>1, <1>2
  <2>2. q < p => <<q, p>> \in R
    BY <2>1 DEF OpToRel
  <2>. HIDE DEF R
  <2>. QED
    BY <2>1, <2>2
<1>. QED
  BY <1>3 DEF Lowest

\* A scan returns the lowest page from its start on that reads erased.
LEMMA ScanFinds ==
  ASSUME NEW start \in Nat
  PROVE  \/ /\ Scan(start) \in Pages
            /\ start <= Scan(start) /\ HeaderBlank(Scan(start))
            /\ \A p \in Pages : start <= p /\ HeaderBlank(p) => Scan(start) <= p
         \/ /\ Scan(start) = FullUsed
            /\ \A p \in Pages : start <= p => ~HeaderBlank(p)
<1>. DEFINE empty == {p \in Pages : start <= p /\ HeaderBlank(p)}
<1>1. CASE empty = {}
  BY <1>1 DEF Scan
<1>2. CASE empty # {}
  <2>1. Lowest(empty) \in empty /\ \A q \in empty : Lowest(empty) <= q
    BY <1>2, LowestPage
  <2>2. Scan(start) = Lowest(empty)
    BY <1>2 DEF Scan
  <2>. QED
    BY <2>1, <2>2
<1>. QED
  BY <1>1, <1>2

\* A search returns what it remembers or scans, from its start on.
LEMMA SearchFinds ==
  ASSUME NEW start \in Nat
  PROVE  /\ FindNextEmptyPage(start) \in Pages \cup {FullUsed}
         /\ FindNextEmptyPage(start) # FullUsed => start <= FindNextEmptyPage(start)
         /\ \/ FindNextEmptyPage(start) = cache /\ cache # Undefined
            \/ FindNextEmptyPage(start) = Scan(start)
<1>1. FullUsed \notin Pages /\ Undefined \notin Pages /\ FullUsed # Undefined
  BY StorageAssumption DEF Pages, FullUsed, Undefined
<1>2. CASE cache \in Pages /\ start <= cache
  BY <1>1, <1>2 DEF FindNextEmptyPage
<1>3. CASE cache = FullUsed
  BY <1>1, <1>3 DEF FindNextEmptyPage
<1>4. CASE ~(cache \in Pages /\ start <= cache) /\ cache # FullUsed
  BY <1>4, ScanFinds DEF FindNextEmptyPage
<1>. QED
  BY <1>2, <1>3, <1>4

-----------------------------------------------------------------------------
(* Types *)

\* The names of contents and states are told apart.
LEMMA Names ==
  /\ Size \in Nat /\ MaxBlocks \in Nat /\ MaxBoots \in Nat /\ MaxFaults \in Nat
  /\ Pages \subseteq Nat /\ Blocks \subseteq Nat \ {0} /\ 0 \in Pages
  /\ Chunks \subseteq Nat /\ 1 \in Chunks /\ ChunkCount \in Chunks
  /\ Blank = 0 /\ Torn = -1 /\ Scratched = -2 /\ Undefined = -1 /\ FullUsed = -2
BY StorageAssumption
   DEF Pages, Blocks, Chunks, Blank, Torn, Scratched, Undefined, FullUsed

LEMMA IdleWriterType ==
  IdleWriter \in [stage : {"idle", "aqured", "writing", "halted"},
                  next : 0 .. Size, dest : Pages,
                  block : {0} \cup Blocks, chunk : Chunks]
<1>1. 0 \in 0 .. Size
  BY Names
<1>. QED
  BY <1>1, Names DEF IdleWriter

LEMMA InitType == Init => TypeOK
<1>. SUFFICES ASSUME Init PROVE TypeOK
  OBVIOUS
<1>1. flash \in [Pages -> [Chunks -> Content]]
  BY DEF Init, BlankPage, Content
<1>2. /\ boots \in 0 .. MaxBoots /\ faults \in 0 .. MaxFaults
      /\ recorded \in 0 .. MaxBlocks /\ begun \in 0 .. recorded
      /\ doomed \in 0 .. recorded
  BY Names DEF Init
<1>. QED
  BY <1>1, <1>2, IdleWriterType DEF Init, TypeOK

LEMMA FaultType ==
  ASSUME TypeOK, Fault
  PROVE  faults' \in 0 .. MaxFaults
BY StorageAssumption DEF TypeOK, Fault

LEMMA WriteEndsType ==
  ASSUME TypeOK, WriteEnds
  PROVE  writer' \in [stage : {"idle", "aqured", "writing", "halted"},
                      next : 0 .. Size, dest : Pages,
                      block : {0} \cup Blocks, chunk : Chunks]
BY Names DEF TypeOK, WriteEnds

LEMMA StepType == TypeOK /\ [Next]_vars => TypeOK'
<1>. SUFFICES ASSUME TypeOK, [Next]_vars PROVE TypeOK'
  OBVIOUS
<1>1. CASE TryCreateNewPage
  <2>. DEFINE ep == FindNextEmptyPage(writer.next)
  <2>1. writer.next \in Nat /\ ep \in Pages \cup {FullUsed}
    BY SearchFinds, StorageAssumption DEF TypeOK
  <2>2. UNCHANGED <<flash, failure, mode, boots, begun, faults, doomed, erasing, eraser>>
    BY <1>1 DEF TryCreateNewPage, usbVars
  <2>3. cache' = ep
    BY <1>1 DEF TryCreateNewPage
  <2>4. CASE ep = FullUsed
    <3>1. writer' = [writer EXCEPT !.stage = "halted"] /\ UNCHANGED recorded
      BY <1>1, <2>4 DEF TryCreateNewPage
    <3>. QED
      BY <2>1, <2>2, <2>3, <3>1 DEF TypeOK
  <2>5. CASE ep # FullUsed /\ writer' = [writer EXCEPT !.next = ep] /\ UNCHANGED recorded
    <3>1. ep \in 0 .. Size
      BY <2>1, <2>5, StorageAssumption DEF Pages
    <3>. QED
      BY <2>1, <2>2, <2>3, <2>5, <3>1 DEF TypeOK
  <2>6. CASE /\ ep # FullUsed /\ recorded' = recorded + 1
             /\ writer' = [stage |-> "aqured", next |-> NextPage(ep),
                           dest |-> ep, block |-> recorded', chunk |-> 1]
    <3>1. NextPage(ep) \in 0 .. Size /\ ep \in Pages
      BY <2>1, <2>6, StorageAssumption DEF Pages, NextPage
    <3>2. recorded' \in 0 .. MaxBlocks /\ recorded' \in Blocks
      BY <1>1, <2>6, StorageAssumption DEF TryCreateNewPage, TypeOK, Blocks
    <3>3. begun \in 0 .. recorded' /\ doomed \in 0 .. recorded'
      BY <2>6, StorageAssumption DEF TypeOK
    <3>. QED
      BY <2>1, <2>2, <2>3, <2>6, <3>1, <3>2, <3>3, Names DEF TypeOK
  <2>. QED
    BY <1>1, <2>4, <2>5, <2>6 DEF TryCreateNewPage
<1>2. CASE SelectPage
  BY <1>2, FaultType, WriteEndsType DEF SelectPage, TypeOK, usbVars
<1>3. CASE WriteChunk
  <2>1. UNCHANGED <<mode, boots, cache, recorded, begun, doomed, erasing, eraser>>
    BY <1>3 DEF WriteChunk, usbVars
  <2>2. writer.dest \in Pages /\ writer.chunk \in Chunks
    BY DEF TypeOK
  <2>3. flash' \in [Pages -> [Chunks -> Content]]
    <3>1. Torn \in Content /\ writer.block \in Content
      BY Names DEF TypeOK, Content
    <3>2. CASE UNCHANGED flash
      BY <3>2 DEF TypeOK
    <3>3. ASSUME NEW v \in Content,
                 flash' = [flash EXCEPT ![writer.dest][writer.chunk] = v]
          PROVE  flash' \in [Pages -> [Chunks -> Content]]
      BY <2>2, <3>3 DEF TypeOK
    <3>4. Programmed(flash[writer.dest][writer.chunk], writer.block) \in Content
      BY <3>1 DEF Programmed
    <3>. QED
      BY <1>3, <3>1, <3>2, <3>3, <3>4 DEF WriteChunk
  <2>4. writer' \in [stage : {"idle", "aqured", "writing", "halted"},
                     next : 0 .. Size, dest : Pages,
                     block : {0} \cup Blocks, chunk : Chunks]
    <3>1. CASE WriteEnds
      BY <3>1, WriteEndsType
    <3>2. CASE writer.chunk # ChunkCount /\ writer' = [writer EXCEPT !.chunk = @ + 1]
      <4>1. writer.chunk + 1 \in Chunks
        BY <2>2, <3>2, StorageAssumption DEF Chunks
      <4>. QED
        BY <3>2, <4>1 DEF TypeOK
    <3>. QED
      BY <1>3, <3>1, <3>2 DEF WriteChunk
  <2>5. failure' \in BOOLEAN /\ faults' \in 0 .. MaxFaults
    BY <1>3, FaultType DEF WriteChunk, TypeOK
  <2>. QED
    BY <2>1, <2>3, <2>4, <2>5 DEF TypeOK
<1>4. CASE FlashErease
  BY <1>4, FaultType DEF FlashErease, TypeOK
<1>5. CASE EraseBegins
  <2>1. doomed' \in 0 .. recorded'
    BY <1>5, Names DEF EraseBegins, TypeOK
  <2>. QED
    BY <1>5, <2>1, FaultType DEF EraseBegins, TypeOK
<1>6. CASE FirstDieErased
  BY <1>6 DEF FirstDieErased, TypeOK, BlankPage, Content
<1>7. CASE SecondDieErased
  BY <1>7 DEF SecondDieErased, TypeOK, FlagAfterErase
<1>8. CASE Boot
  <2>1. Scan(0) \in Pages \cup {FullUsed}
    BY ScanFinds
  <2>2. begun' \in 0 .. recorded' /\ boots' \in 0 .. MaxBoots
    BY <1>8, StorageAssumption DEF Boot, TypeOK
  <2>. QED
    BY <1>8, <2>1, <2>2 DEF Boot, TypeOK, usbVars
<1>9. CASE PowerLoss
  <2>1. flash' \in [Pages -> [Chunks -> Content]]
    <3>1. ASSUME NEW c \in Chunks, NEW old \in Content
          PROVE  InterruptedProgram(c, old) \subseteq Content
      BY <3>1 DEF InterruptedProgram, Content
    <3>2. ASSUME NEW page \in [Chunks -> Content]
          PROVE  InterruptedErase(page) \subseteq [Chunks -> Content]
      BY <3>2 DEF InterruptedErase, BlankPage, Content
    <3>3. CASE writer.stage = "writing" /\ ~failure
      <4>1. writer.dest \in Pages /\ writer.chunk \in Chunks
        BY DEF TypeOK
      <4>2. PICK left \in InterruptedProgram(writer.chunk, flash[writer.dest][writer.chunk]) :
              flash' = [flash EXCEPT ![writer.dest][writer.chunk] = left]
        BY <1>9, <3>3 DEF PowerLoss
      <4>3. left \in Content
        BY <3>1, <4>1, <4>2 DEF TypeOK
      <4>. QED
        BY <4>1, <4>2, <4>3 DEF TypeOK
    <3>4. CASE ~(writer.stage = "writing" /\ ~failure) /\ eraser = "first"
      <4>1. /\ flash' \in [Pages -> UNION {InterruptedErase(flash[p]) : p \in Pages}]
            /\ \A p \in Pages : flash'[p] \in InterruptedErase(flash[p])
        BY <1>9, <3>4 DEF PowerLoss
      <4>2. \A p \in Pages : flash'[p] \in [Chunks -> Content]
        BY <3>2, <4>1 DEF TypeOK
      <4>. QED
        BY <4>1, <4>2
    <3>5. CASE ~(writer.stage = "writing" /\ ~failure) /\ eraser # "first"
      BY <1>9, <3>5 DEF PowerLoss, TypeOK
    <3>. QED
      BY <3>3, <3>4, <3>5
  <2>2. /\ UNCHANGED <<boots, recorded, begun, faults, doomed>>
        /\ mode' = "off" /\ failure' = FALSE /\ cache' = Undefined
        /\ writer' = IdleWriter /\ erasing' = FALSE /\ eraser' = "none"
    BY <1>9 DEF PowerLoss
  <2>. QED
    BY <2>1, <2>2, IdleWriterType DEF TypeOK
<1>10. CASE UNCHANGED vars
  BY <1>10 DEF vars, usbVars, TypeOK
<1>. QED
  BY <1>1, <1>2, <1>3, <1>4, <1>5, <1>6, <1>7, <1>8, <1>9, <1>10 DEF Next

\* The memory, the writer and the clear are always in one of the states the
\* code has for them: no page, chunk or block number leaves its range.
THEOREM PageStorageType == Spec => []TypeOK
BY InitType, StepType, PTL DEF Spec

-----------------------------------------------------------------------------
(* The invariant is inductive *)

\* What a chunk holds is a number.
LEMMA ContentNumber ==
  ASSUME TypeOK
  PROVE  \A p \in Pages, c \in Chunks : flash[p][c] \in Content /\ flash[p][c] \in Int
<1>1. Content \subseteq Int
  BY Names DEF Content
<1>. QED
  BY <1>1 DEF TypeOK

LEMMA InitInv == Init => Inv
<1>. SUFFICES ASSUME Init PROVE Inv
  OBVIOUS
<1>1. \A p \in Pages, c \in Chunks : flash[p][c] = 0
  BY Names DEF Init, BlankPage
<1>2. HoldsRecorded
  BY <1>1, Names DEF Init, HoldsRecorded
<1>3. ModesApart /\ PageInHand /\ CacheFresh /\ HeadersInOrder
  BY DEF Init, ModesApart, PageInHand, CacheFresh, HeadersInOrder, IdleWriter, InHand
<1>4. NoneSkipped
  BY <1>1, Names DEF Init, NoneSkipped
<1>. QED
  BY <1>2, <1>3, <1>4 DEF Inv

\* What the search returns reads erased, and without faults nothing below it
\* does that had not been searched before.
LEMMA SearchInv ==
  ASSUME TypeOK, Inv, TryCreateNewPage
  PROVE  LET ep == FindNextEmptyPage(writer.next)
         IN  /\ ep \in Pages => HeaderBlank(ep) /\ writer.next <= ep
             /\ faults = 0 => \A p \in Pages : HeaderBlank(p) => ep # FullUsed /\ ep <= p
<1>. DEFINE ep == FindNextEmptyPage(writer.next)
<1>1. writer.next \in Nat /\ writer.stage = "idle" /\ mode = "recorder"
  BY Names DEF TypeOK, TryCreateNewPage
<1>2. /\ ep \in Pages \cup {FullUsed}
      /\ ep # FullUsed => writer.next <= ep
      /\ (ep = cache /\ cache # Undefined) \/ ep = Scan(writer.next)
  BY <1>1, SearchFinds
<1>3. FullUsed \notin Pages
  BY Names
<1>4. CASE ep = cache /\ cache # Undefined
  <2>1. ep \in Pages => HeaderBlank(ep)
    BY <1>1, <1>2, <1>3, <1>4 DEF Inv, CacheFresh
  <2>. HIDE DEF ep
  <2>2. faults = 0 => \A p \in Pages : HeaderBlank(p) => ep # FullUsed /\ ep <= p
    BY <1>1, <1>2, <1>4 DEF Inv, NoneSkipped
  <2>3. ep \in Pages => HeaderBlank(ep) /\ writer.next <= ep
    BY <1>2, <1>3, <2>1
  <2>. QED
    BY <2>2, <2>3 DEF ep
<1>5. CASE ep = Scan(writer.next)
  <2>. HIDE DEF ep
  <2>1. \/ /\ ep \in Pages /\ writer.next <= ep /\ HeaderBlank(ep)
           /\ \A p \in Pages : writer.next <= p /\ HeaderBlank(p) => ep <= p
        \/ /\ ep = FullUsed
           /\ \A p \in Pages : writer.next <= p => ~HeaderBlank(p)
    BY <1>1, <1>5, ScanFinds
  <2>2. faults = 0 => \A p \in Pages : HeaderBlank(p) => writer.next <= p
    BY <1>1 DEF Inv, NoneSkipped
  <2>. QED
    BY <1>3, <2>1, <2>2 DEF ep
<1>. QED
  BY <1>2, <1>4, <1>5

LEMMA TryCreateNewPageInv ==
  ASSUME TypeOK, Inv, TryCreateNewPage
  PROVE  Inv'
<1>. DEFINE ep == FindNextEmptyPage(writer.next)
<1>1. /\ UNCHANGED <<flash, failure, mode, begun, faults, doomed, erasing, eraser>>
      /\ cache' = ep /\ mode = "recorder" /\ writer.stage = "idle"
  BY DEF TryCreateNewPage, usbVars
<1>2. /\ ep \in Pages => HeaderBlank(ep) /\ writer.next <= ep
      /\ faults = 0 => \A p \in Pages : HeaderBlank(p) => ep # FullUsed /\ ep <= p
  BY SearchInv
<1>3. writer.next \in Nat /\ ep \in Pages \cup {FullUsed} /\ ep # Undefined
  BY SearchFinds, Names DEF TypeOK
<1>4. \A p \in Pages : HeaderBlank(p)' <=> HeaderBlank(p)
  BY <1>1 DEF HeaderBlank
<1>5. /\ recorded \in Nat /\ begun \in Nat /\ doomed \in Nat
      /\ \A p \in Pages : flash[p][1] \in Int
  BY Names, ContentNumber DEF TypeOK
<1>6. eraser = "none"
  BY <1>1 DEF Inv, ModesApart
<1>. HIDE DEF ep
<1>7. CASE ep = FullUsed
  <2>1. writer' = [writer EXCEPT !.stage = "halted"] /\ recorded' = recorded
    BY <1>7 DEF TryCreateNewPage, ep
  <2>2. writer'.stage = "halted" /\ writer'.next = writer.next /\ ~InHand'
    BY <2>1 DEF TypeOK, InHand
  <2>3. FullUsed \notin Pages
    BY Names
  <2>4. HoldsRecorded' /\ ModesApart' /\ PageInHand' /\ CacheFresh'
    BY <1>1, <1>3, <1>6, <1>7, <2>1, <2>2, <2>3
       DEF Inv, HoldsRecorded, ModesApart, PageInHand, CacheFresh
  <2>5. HeadersInOrder'
    BY <1>1, <2>2 DEF Inv, HeadersInOrder
  <2>6. NoneSkipped'
    BY <1>1, <1>2, <1>4, <1>7 DEF Inv, NoneSkipped
  <2>. QED
    BY <2>4, <2>5, <2>6 DEF Inv
<1>8. CASE ep # FullUsed /\ writer' = [writer EXCEPT !.next = ep] /\ UNCHANGED recorded
  <2>1. writer'.stage = "idle" /\ writer'.next = ep /\ ~InHand'
    BY <1>1, <1>8 DEF TypeOK, InHand
  <2>2. ep \in Pages /\ ep \in Nat /\ \A p \in Pages : p \in Nat
    BY <1>3, <1>8, Names
  <2>3. HoldsRecorded' /\ ModesApart' /\ PageInHand'
    BY <1>1, <1>6, <1>8, <2>1 DEF Inv, HoldsRecorded, ModesApart, PageInHand
  <2>4. CacheFresh'
    BY <1>1, <1>2, <1>3, <1>4, <2>2 DEF CacheFresh
  <2>5. HeadersInOrder'
    BY <1>1, <1>2, <1>3, <2>1, <2>2 DEF Inv, HeadersInOrder
  <2>6. NoneSkipped'
    BY <1>1, <1>2, <1>4, <1>8, <2>1 DEF Inv, NoneSkipped
  <2>. QED
    BY <2>3, <2>4, <2>5, <2>6 DEF Inv
<1>9. CASE /\ ep # FullUsed /\ recorded' = recorded + 1
           /\ writer' = [stage |-> "aqured", next |-> NextPage(ep),
                         dest |-> ep, block |-> recorded', chunk |-> 1]
  <2>1. ep \in Pages /\ ep \in Nat /\ \A p \in Pages : p \in Nat
    BY <1>3, <1>9, Names
  <2>2. /\ writer'.stage = "aqured" /\ writer'.next = ep + 1 /\ writer'.dest = ep
        /\ writer'.block = recorded + 1 /\ writer'.chunk = 1
    BY <1>9 DEF NextPage
  <2>3. recorded < MaxBlocks /\ recorded + 1 \in Blocks
    BY <1>5, Names DEF TryCreateNewPage, Blocks
  <2>4. \A p \in Pages, c \in Chunks : flash[p][c] \in Int /\ flash[p][c] <= recorded
    BY ContentNumber DEF Inv, HoldsRecorded
  <2>5. HoldsRecorded' /\ ModesApart'
    BY <1>1, <1>5, <1>6, <1>9, <2>4 DEF HoldsRecorded, ModesApart
  <2>6. PageInHand'
    <3>1. flash'[ep][1] \in {Blank, Torn, Scratched, writer'.block}
      BY <1>1, <1>2, <2>1 DEF HeaderBlank
    <3>2. \A p \in Pages, c \in Chunks : flash'[p][c] # writer'.block
      BY <1>1, <1>5, <2>2, <2>4
    <3>. QED
      BY <1>1, <1>9, <2>2, <2>3, <3>1, <3>2 DEF PageInHand
  <2>7. CacheFresh'
    BY <1>1, <1>3, <2>1, <2>2 DEF CacheFresh
  <2>8. HeadersInOrder'
    BY <1>1, <1>2, <1>3, <2>1, <2>2 DEF Inv, HeadersInOrder
  <2>9. NoneSkipped'
    BY <1>1, <1>2, <1>4, <1>9, <2>1, <2>2 DEF Inv, NoneSkipped
  <2>. QED
    BY <2>5, <2>6, <2>7, <2>8, <2>9 DEF Inv
<1>. QED
  BY <1>7, <1>8, <1>9 DEF TryCreateNewPage, ep

\* A fault is counted.
LEMMA FaultCounted ==
  ASSUME TypeOK, Fault
  PROVE  faults' # 0
BY Names DEF TypeOK, Fault

LEMMA SelectPageInv ==
  ASSUME TypeOK, Inv, SelectPage
  PROVE  Inv'
<1>1. /\ UNCHANGED <<flash, failure, mode, cache, recorded, begun, doomed, eraser, erasing>>
      /\ mode = "recorder" /\ writer.stage = "aqured"
  BY DEF SelectPage, usbVars
<1>2. InHand /\ writer.chunk = 1 /\ writer.next = writer.dest + 1 /\ writer.dest \in Pages
  BY <1>1 DEF InHand, Inv, PageInHand, TypeOK
<1>3. \A p \in Pages : HeaderBlank(p)' <=> HeaderBlank(p)
  BY <1>1 DEF HeaderBlank
<1>4. HoldsRecorded' /\ ModesApart'
  BY <1>1 DEF Inv, HoldsRecorded, ModesApart
<1>5. CASE writer' = [writer EXCEPT !.stage = "writing"] /\ UNCHANGED faults
  <2>1. /\ writer'.stage = "writing" /\ writer'.next = writer.next
        /\ writer'.dest = writer.dest /\ writer'.block = writer.block
        /\ writer'.chunk = writer.chunk /\ InHand'
    BY <1>5 DEF TypeOK, InHand
  <2>2. PageInHand'
    BY <1>1, <1>2, <2>1 DEF Inv, PageInHand
  <2>3. CacheFresh' /\ HeadersInOrder'
    BY <1>1, <1>2, <1>3, <2>1 DEF Inv, CacheFresh, HeadersInOrder
  <2>4. NoneSkipped'
    BY <1>1, <1>2, <1>3, <1>5, <2>1 DEF Inv, NoneSkipped
  <2>. QED
    BY <1>4, <2>2, <2>3, <2>4 DEF Inv
<1>6. CASE WriteEnds /\ Fault
  <2>1. writer'.stage = "idle" /\ writer'.next = writer.next /\ ~InHand'
    BY <1>6 DEF WriteEnds, TypeOK, InHand
  <2>2. PageInHand' /\ CacheFresh' /\ HeadersInOrder'
    BY <1>1, <1>3, <2>1 DEF Inv, PageInHand, CacheFresh, HeadersInOrder
  <2>3. NoneSkipped'
    BY <1>6, FaultCounted DEF NoneSkipped
  <2>. QED
    BY <1>4, <2>2, <2>3 DEF Inv
<1>. QED
  BY <1>5, <1>6 DEF SelectPage

\* What one program changes: one chunk of the page in hand, which is then
\* neither erased nor, if anything was there before, that of the block.
LEMMA WriteChunkEffect ==
  ASSUME TypeOK, Inv, WriteChunk
  PROVE  /\ UNCHANGED <<mode, cache, recorded, begun, doomed, eraser>>
         /\ mode = "recorder" /\ writer.stage = "writing" /\ InHand
         /\ writer.dest \in Pages /\ writer.chunk \in Chunks
         /\ writer'.next = writer.next /\ writer'.dest = writer.dest
         /\ writer'.block = writer.block
         /\ \/ writer'.stage = "idle" /\ ~InHand'
            \/ /\ writer'.stage = "writing" /\ InHand'
               /\ writer'.chunk = writer.chunk + 1 /\ ~failure
               /\ writer.chunk # ChunkCount
         /\ \A p \in Pages, c \in Chunks :
              p # writer.dest \/ c # writer.chunk => flash'[p][c] = flash[p][c]
         /\ failure => UNCHANGED flash /\ writer'.stage = "idle"
         /\ ~failure =>
              LET old == flash[writer.dest][writer.chunk]
                  new == flash'[writer.dest][writer.chunk]
              IN  /\ new = Torn \/ (old = Blank /\ new = writer.block)
                  /\ failure' => faults' # 0
                  /\ faults' = 0 => faults = 0
                  /\ writer.chunk = ChunkCount <=> writer'.stage = "idle"
<1>1. /\ UNCHANGED <<mode, cache, recorded, begun, doomed, eraser>>
      /\ mode = "recorder" /\ writer.stage = "writing" /\ InHand
      /\ writer.dest \in Pages /\ writer.chunk \in Chunks
  BY DEF WriteChunk, usbVars, TypeOK, InHand
<1>2. WriteEnds => /\ writer'.next = writer.next /\ writer'.dest = writer.dest
                   /\ writer'.block = writer.block
                   /\ writer'.stage = "idle" /\ ~InHand'
  BY DEF WriteEnds, TypeOK, InHand
<1>3. CASE failure
  BY <1>1, <1>2, <1>3 DEF WriteChunk
<1>4. CASE ~failure
  <2>. DEFINE old == flash[writer.dest][writer.chunk]
              new == flash'[writer.dest][writer.chunk]
  <2>1. /\ writer'.next = writer.next /\ writer'.dest = writer.dest
        /\ writer'.block = writer.block
        /\ \/ writer'.stage = "idle" /\ ~InHand'
           \/ /\ writer'.stage = "writing" /\ InHand'
              /\ writer'.chunk = writer.chunk + 1
              /\ writer.chunk # ChunkCount
        /\ writer.chunk = ChunkCount <=> writer'.stage = "idle"
    <3>1. CASE writer.chunk = ChunkCount
      BY <1>2, <1>4, <3>1 DEF WriteChunk
    <3>2. CASE writer.chunk # ChunkCount
      <4>1. writer' = [writer EXCEPT !.chunk = @ + 1]
        BY <1>4, <3>2 DEF WriteChunk
      <4>. QED
        BY <1>1, <3>2, <4>1 DEF TypeOK, InHand
    <3>. QED
      BY <3>1, <3>2
  <2>2. PICK v : flash' = [flash EXCEPT ![writer.dest][writer.chunk] = v]
    BY <1>4 DEF WriteChunk
  <2>3. /\ new = v
        /\ \A p \in Pages, c \in Chunks :
             p # writer.dest \/ c # writer.chunk => flash'[p][c] = flash[p][c]
    BY <1>1, <2>2 DEF TypeOK
  <2>4. CASE Fault /\ failure' = TRUE
             /\ flash' = [flash EXCEPT ![writer.dest][writer.chunk] = Torn]
    <3>1. new = Torn
      BY <1>1, <2>4 DEF TypeOK
    <3>2. faults' # 0
      BY <2>4, FaultCounted
    <3>. QED
      BY <1>1, <1>4, <2>1, <2>3, <3>1, <3>2
  <2>5. CASE UNCHANGED <<failure, faults>>
             /\ flash' = [flash EXCEPT ![writer.dest][writer.chunk] =
                            Programmed(old, writer.block)]
    <3>1. new = Torn \/ (old = Blank /\ new = writer.block)
      BY <1>1, <2>5 DEF TypeOK, Programmed
    <3>. QED
      BY <1>1, <1>4, <2>1, <2>3, <2>5, <3>1
  <2>. QED
    BY <1>4, <2>4, <2>5 DEF WriteChunk
<1>. QED
  BY <1>3, <1>4

LEMMA WriteChunkInv ==
  ASSUME TypeOK, Inv, WriteChunk
  PROVE  Inv'
<1>. PICK d, k : d = writer.dest /\ k = writer.chunk
  OBVIOUS
<1>1. /\ UNCHANGED <<mode, cache, recorded, begun, doomed, eraser>>
      /\ mode = "recorder" /\ writer.stage = "writing" /\ InHand
      /\ d \in Pages /\ k \in Chunks
      /\ writer'.next = writer.next /\ writer'.dest = d
      /\ writer'.block = writer.block
      /\ \/ writer'.stage = "idle" /\ ~InHand'
         \/ /\ writer'.stage = "writing" /\ InHand' /\ writer'.chunk = k + 1
      /\ \A p \in Pages, c \in Chunks : p # d \/ c # k => flash'[p][c] = flash[p][c]
  BY WriteChunkEffect
<1>2. /\ flash'[d][k] \in {flash[d][k], Torn, writer.block}
      /\ failure => UNCHANGED flash /\ writer'.stage = "idle"
      /\ ~failure => /\ flash'[d][k] \in {Torn, writer.block}
                     /\ faults' = 0 => faults = 0 /\ ~failure'
  BY WriteChunkEffect
<1>3. /\ writer.block = recorded /\ writer.block \in Blocks
      /\ cache = d /\ writer.next = d + 1
      /\ flash[d][1] \in {Blank, Torn, Scratched, writer.block}
      /\ \A p \in Pages, c \in Chunks :
           flash[p][c] = writer.block => p = d /\ c < k
  BY <1>1 DEF Inv, PageInHand
<1>4. /\ d \in Nat /\ k \in Nat \ {0} /\ begun \in Nat /\ doomed \in Nat
      /\ recorded \in Nat \ {0} /\ 1 \in Chunks
      /\ \A p \in Pages : p \in Nat
      /\ \A c \in Chunks : c \in Nat \ {0}
  <2>1. begun \in Nat /\ doomed \in Nat
    BY Names DEF TypeOK
  <2>2. recorded \in Nat \ {0}
    BY <1>3, Names
  <2>3. \A c \in Chunks : c \in Nat \ {0}
    BY DEF Chunks
  <2>. QED
    BY <1>1, <2>1, <2>2, <2>3, Names
<1>5. \A p \in Pages : p # d => flash'[p][1] = flash[p][1]
  BY <1>1, <1>4
<1>6. flash'[d][1] \in {Blank, Torn, Scratched, writer.block}
  BY <1>1, <1>2, <1>3, <1>4
<1>7. /\ \A p \in Pages : p # d => (HeaderBlank(p)' <=> HeaderBlank(p))
      /\ ~failure /\ k = 1 => ~HeaderBlank(d)'
      /\ k # 1 => (HeaderBlank(d)' <=> HeaderBlank(d))
  <2>1. \A p \in Pages : p # d => (HeaderBlank(p)' <=> HeaderBlank(p))
    BY <1>5 DEF HeaderBlank
  <2>2. ~failure /\ k = 1 => flash'[d][1] \in {Torn, writer.block}
    BY <1>2
  <2>3. ~failure /\ k = 1 => ~HeaderBlank(d)'
    BY <1>3, <2>2, Names DEF HeaderBlank
  <2>4. k # 1 => flash'[d][1] = flash[d][1]
    BY <1>1, <1>4
  <2>. QED
    BY <2>1, <2>3, <2>4 DEF HeaderBlank
<1>8. HoldsRecorded'
  BY <1>1, <1>2, <1>3, <1>4, Names DEF Inv, HoldsRecorded
<1>9. ModesApart'
  BY <1>1 DEF Inv, ModesApart
<1>10. PageInHand'
  <2>1. CASE writer'.stage = "idle" /\ ~InHand'
    BY <2>1 DEF PageInHand
  <2>2. CASE writer'.stage = "writing" /\ writer'.chunk = k + 1
    <3>1. \A p \in Pages, c \in Chunks :
            flash'[p][c] = writer.block => p = d /\ c < k + 1
      BY <1>1, <1>3, <1>4
    <3>. QED
      BY <1>1, <1>3, <1>6, <2>2, <3>1 DEF PageInHand
  <2>. QED
    BY <1>1, <2>1, <2>2
<1>11. CacheFresh'
  BY <1>1, <1>3, <1>4 DEF Inv, CacheFresh
<1>12. HeadersInOrder'
  <2>. SUFFICES ASSUME NEW p \in Pages, begun < flash'[p][1]
                PROVE  /\ p < writer.next
                       /\ p < d \/ flash'[p][1] = writer.block
                       /\ \A q \in Pages : flash'[p][1] < flash'[q][1] => p < q
    BY <1>1 DEF HeadersInOrder
  <2>1. CASE p = d
    <3>1. flash'[p][1] = writer.block
      BY <1>3, <1>4, <1>6, <2>1, Names
    <3>2. \A q \in Pages : flash'[q][1] \in Int /\ flash'[q][1] <= recorded
      BY <1>3, <1>4, <1>5, <1>6, <1>8, <1>1, ContentNumber, Names DEF HoldsRecorded
    <3>. QED
      BY <1>3, <1>4, <2>1, <3>1, <3>2
  <2>2. CASE p # d
    <3>1. begun < flash[p][1] /\ flash'[p][1] = flash[p][1]
      BY <1>5, <2>2
    <3>2. /\ p < d \/ flash[p][1] = writer.block
          /\ \A q \in Pages : flash[p][1] < flash[q][1] => p < q
      BY <1>1, <3>1 DEF Inv, HeadersInOrder
    <3>3. p < d
      BY <1>3, <1>4, <2>2, <3>2
    <3>4. \A q \in Pages : flash'[p][1] < flash'[q][1] => p < q
      BY <1>5, <3>1, <3>2, <3>3
    <3>. QED
      BY <1>3, <1>4, <3>1, <3>3, <3>4
  <2>. QED
    BY <2>1, <2>2
<1>13. NoneSkipped'
  <2>. SUFFICES ASSUME faults' = 0 PROVE NoneSkipped'
    BY DEF NoneSkipped
  <2>1. CASE failure
    <3>1. UNCHANGED <<flash, failure, faults>>
      BY <2>1 DEF WriteChunk
    <3>. QED
      BY <2>1, <3>1 DEF Inv, NoneSkipped
  <2>2. CASE ~failure
    <3>1. faults = 0 /\ ~failure'
      BY <1>2, <2>2
    <3>2. \A p \in Pages : HeaderBlank(p) =>
            /\ d <= p
            /\ p = d => k = 1
            /\ cache # FullUsed /\ cache <= p
      BY <1>1, <1>3, <3>1 DEF Inv, NoneSkipped
    <3>3. \A p \in Pages : HeaderBlank(p)' => HeaderBlank(p) /\ d < p
      BY <1>4, <1>7, <2>2, <3>2
    <3>4. \A p, q \in Pages : doomed < flash'[p][1] /\ HeaderBlank(q)' => p < q
      <4>. SUFFICES ASSUME NEW p \in Pages, NEW q \in Pages,
                           doomed < flash'[p][1], HeaderBlank(q)'
                    PROVE  p < q
        OBVIOUS
      <4>1. CASE p = d
        BY <3>3, <4>1
      <4>2. CASE p # d
        BY <1>5, <3>1, <3>3, <4>2 DEF Inv, NoneSkipped
      <4>. QED
        BY <4>1, <4>2
    <3>5. \A p \in Pages : HeaderBlank(p)' =>
            /\ writer'.stage = "idle" => writer'.next <= p
            /\ InHand' => writer'.dest <= p
            /\ writer'.stage = "writing" /\ p = writer'.dest => writer'.chunk = 1
            /\ writer'.stage # "halted"
            /\ cache' # FullUsed
            /\ cache' <= p
      BY <1>1, <1>3, <1>4, <3>2, <3>3
    <3>. QED
      BY <1>1, <3>1, <3>4, <3>5 DEF NoneSkipped
  <2>. QED
    BY <2>1, <2>2
<1>. QED
  BY <1>8, <1>9, <1>10, <1>11, <1>12, <1>13 DEF Inv

\* A step that leaves memory and writer alone keeps the invariant, if it only
\* moves the clear on and faults are counted.
LEMMA QuietInv ==
  ASSUME TypeOK, Inv,
         UNCHANGED <<flash, failure, mode, cache, writer, recorded, begun>>,
         doomed' \in {doomed, recorded},
         faults' = 0 => faults = 0,
         eraser' # "none" => mode = "usb" /\ erasing',
         eraser' = "first" => doomed' = recorded
  PROVE  Inv'
<1>1. /\ \A p \in Pages : HeaderBlank(p)' <=> HeaderBlank(p)
      /\ InHand' <=> InHand
  BY DEF HeaderBlank, InHand
<1>2. HoldsRecorded' /\ ModesApart' /\ PageInHand' /\ CacheFresh' /\ HeadersInOrder'
  BY <1>1 DEF Inv, HoldsRecorded, ModesApart, PageInHand, CacheFresh, HeadersInOrder
<1>3. \A p \in Pages : doomed' < flash[p][1] => doomed < flash[p][1]
  BY ContentNumber, Names DEF Inv, HoldsRecorded, TypeOK
<1>4. NoneSkipped'
  BY <1>1, <1>3 DEF Inv, NoneSkipped
<1>. QED
  BY <1>2, <1>4 DEF Inv

LEMMA FirstDieErasedInv ==
  ASSUME TypeOK, Inv, FirstDieErased
  PROVE  Inv'
<1>1. \A p \in Pages, c \in Chunks : flash'[p][c] = 0
  BY Names DEF FirstDieErased, BlankPage
<1>2. /\ UNCHANGED <<failure, mode, cache, writer, recorded, begun, faults, doomed>>
      /\ erasing' = erasing /\ erasing /\ mode = "usb" /\ writer = IdleWriter /\ eraser' = "second"
  BY DEF FirstDieErased, Inv, ModesApart
<1>3. ~InHand'
  BY <1>2 DEF InHand, IdleWriter
<1>4. recorded \in Nat /\ doomed \in Nat
  BY Names DEF TypeOK
<1>5. HoldsRecorded'
  BY <1>1, <1>2, <1>4 DEF HoldsRecorded
<1>6. ModesApart' /\ PageInHand' /\ CacheFresh' /\ HeadersInOrder'
  BY <1>2, <1>3 DEF Inv, ModesApart, PageInHand, CacheFresh, HeadersInOrder
<1>7. \A p \in Pages : ~(doomed' < flash'[p][1])
  BY <1>1, <1>2, <1>4, Names
<1>8. NoneSkipped'
  BY <1>2, <1>7 DEF Inv, NoneSkipped
<1>. QED
  BY <1>5, <1>6, <1>8 DEF Inv

\* Blocks written since the last clear lie below the first page that reads
\* erased, because none was skipped in any boot.
LEMMA BootInv ==
  ASSUME TypeOK, Inv, Boot
  PROVE  Inv'
<1>1. /\ UNCHANGED <<flash, failure, writer, recorded, faults, doomed, eraser>>
      /\ cache' = Scan(0) /\ begun' = recorded /\ mode = "off" /\ mode' # "off"
  BY DEF Boot, usbVars
<1>2. writer = IdleWriter /\ eraser = "none"
  BY <1>1 DEF Inv, ModesApart
<1>3. writer'.stage = "idle" /\ writer'.next = 0 /\ ~InHand'
  BY <1>1, <1>2 DEF IdleWriter, InHand
<1>4. \/ /\ cache' \in Pages /\ HeaderBlank(cache')
         /\ \A p \in Pages : HeaderBlank(p) => cache' <= p
      \/ /\ cache' = FullUsed
         /\ \A p \in Pages : ~HeaderBlank(p)
  BY <1>1, ScanFinds, Names
<1>5. \A p \in Pages : HeaderBlank(p)' <=> HeaderBlank(p)
  BY <1>1 DEF HeaderBlank
<1>6. /\ cache' # Undefined /\ FullUsed \notin Pages
      /\ \A p \in Pages : p \in Nat
      /\ \A p \in Pages : flash[p][1] \in Int /\ flash[p][1] <= recorded
      /\ recorded \in Nat /\ doomed \in Nat
  BY <1>4, ContentNumber, Names DEF Inv, HoldsRecorded, TypeOK
<1>7. HoldsRecorded' /\ ModesApart' /\ PageInHand'
  BY <1>1, <1>2, <1>3 DEF Inv, HoldsRecorded, ModesApart, PageInHand
<1>8. HeadersInOrder'
  BY <1>1, <1>6 DEF HeadersInOrder
<1>9. CacheFresh'
  <2>1. cache' \in Pages => HeaderBlank(cache)'
    BY <1>1, <1>4, <1>6 DEF HeaderBlank
  <2>. QED
    BY <1>6, <2>1 DEF CacheFresh
<1>10. NoneSkipped'
  <2>. SUFFICES ASSUME faults = 0 PROVE NoneSkipped'
    BY <1>1 DEF NoneSkipped
  <2>1. ~failure /\ \A p, q \in Pages : doomed < flash[p][1] /\ HeaderBlank(q) => p < q
    BY DEF Inv, NoneSkipped
  <2>2. cache' # FullUsed => \A p \in Pages : doomed < flash[p][1] => p < cache'
    BY <1>4, <2>1
  <2>3. \A p \in Pages : HeaderBlank(p)' =>
          writer'.next <= p /\ cache' # FullUsed /\ cache' <= p
    BY <1>3, <1>4, <1>5, <1>6
  <2>. QED
    BY <1>1, <1>3, <1>5, <2>1, <2>2, <2>3 DEF NoneSkipped
<1>. QED
  BY <1>7, <1>8, <1>9, <1>10 DEF Inv

\* What a power loss leaves in a chunk is never a block that was not there.
LEMMA PowerLossEffect ==
  ASSUME TypeOK, Inv, PowerLoss
  PROVE  /\ \A p \in Pages, c \in Chunks :
              flash'[p][c] \in {flash[p][c], Blank, Torn, Scratched}
         /\ eraser # "first" =>
              \A p \in Pages :
                \/ flash'[p][1] = flash[p][1]
                \/ flash'[p][1] = Torn
                \/ flash'[p][1] = Scratched /\ flash[p][1] = Blank
<1>1. CASE writer.stage = "writing" /\ ~failure
  <2>1. writer.dest \in Pages /\ writer.chunk \in Chunks
    BY DEF TypeOK
  <2>2. PICK left \in InterruptedProgram(writer.chunk, flash[writer.dest][writer.chunk]) :
          flash' = [flash EXCEPT ![writer.dest][writer.chunk] = left]
    BY <1>1 DEF PowerLoss
  <2>3. \/ left = flash[writer.dest][writer.chunk]
        \/ left = Torn
        \/ left = Scratched /\ writer.chunk = 1 /\ flash[writer.dest][writer.chunk] = Blank
    BY <2>2 DEF InterruptedProgram
  <2>4. \A p \in Pages, c \in Chunks :
          flash'[p][c] = IF p = writer.dest /\ c = writer.chunk THEN left ELSE flash[p][c]
    BY <2>1, <2>2 DEF TypeOK
  <2>. QED
    BY <2>3, <2>4, Names
<1>2. CASE ~(writer.stage = "writing" /\ ~failure) /\ eraser = "first"
  <2>1. \A p \in Pages : flash'[p] \in InterruptedErase(flash[p])
    BY <1>2 DEF PowerLoss
  <2>2. ASSUME NEW p \in Pages, NEW c \in Chunks
        PROVE  flash'[p][c] \in {flash[p][c], Blank, Torn, Scratched}
    BY <2>1, <2>2 DEF InterruptedErase, BlankPage
  <2>. QED
    BY <1>2, <2>2
<1>3. CASE ~(writer.stage = "writing" /\ ~failure) /\ eraser # "first"
  BY <1>3 DEF PowerLoss
<1>. QED
  BY <1>1, <1>2, <1>3

LEMMA PowerLossInv ==
  ASSUME TypeOK, Inv, PowerLoss
  PROVE  Inv'
<1>1. /\ UNCHANGED <<recorded, begun, faults, doomed>>
      /\ mode' = "off" /\ failure' = FALSE /\ cache' = Undefined
      /\ writer' = IdleWriter /\ eraser' = "none"
  BY DEF PowerLoss
<1>2. recorded \in Nat /\ doomed \in Nat /\ 1 \in Chunks
  BY Names DEF TypeOK
<1>3. \A p \in Pages, c \in Chunks :
        flash[p][c] \in Int /\ flash[p][c] <= recorded
          /\ flash'[p][c] \in {flash[p][c], Blank, Torn, Scratched}
  BY PowerLossEffect, ContentNumber DEF Inv, HoldsRecorded
<1>4. HoldsRecorded'
  BY <1>1, <1>2, <1>3, Names DEF HoldsRecorded
<1>5. ModesApart' /\ PageInHand' /\ CacheFresh' /\ HeadersInOrder'
  BY <1>1 DEF ModesApart, PageInHand, CacheFresh, HeadersInOrder, InHand, IdleWriter
<1>6. NoneSkipped'
  <2>. SUFFICES ASSUME faults = 0, NEW p \in Pages, NEW q \in Pages,
                       doomed < flash'[p][1], HeaderBlank(q)'
                PROVE  p < q
    BY <1>1 DEF NoneSkipped
  <2>1. flash'[p][1] = flash[p][1]
    BY <1>2, <1>3, Names
  <2>2. CASE eraser = "first"
    BY <1>2, <1>3, <2>1, <2>2 DEF Inv, ModesApart
  <2>3. CASE eraser # "first"
    <3>1. HeaderBlank(q)
      BY <2>3, PowerLossEffect, Names DEF HeaderBlank
    <3>. QED
      BY <2>1, <3>1 DEF Inv, NoneSkipped
  <2>. QED
    BY <2>2, <2>3
<1>. QED
  BY <1>4, <1>5, <1>6 DEF Inv

LEMMA StepInv == TypeOK /\ Inv /\ [Next]_vars => Inv'
<1>. SUFFICES ASSUME TypeOK, Inv, [Next]_vars PROVE Inv'
  OBVIOUS
<1>1. CASE FlashErease
  <2>1. /\ UNCHANGED <<flash, failure, mode, cache, writer, recorded, begun, doomed>>
        /\ mode = "usb" /\ erasing' /\ eraser' \in {eraser, "posted"}
        /\ faults' = 0 => faults = 0
    BY <1>1, FaultCounted DEF FlashErease
  <2>2. eraser # "first"
    BY <1>1 DEF FlashErease, Inv, ModesApart
  <2>. QED
    BY <2>1, <2>2, QuietInv
<1>2. CASE EraseBegins
  <2>1. UNCHANGED <<flash, failure, mode, cache, writer, recorded, begun>> /\ mode = "usb"
    BY <1>2 DEF EraseBegins
  <2>2. CASE eraser' = "first" /\ doomed' = recorded /\ UNCHANGED <<erasing, faults>>
    <3>1. erasing
      BY <1>2 DEF EraseBegins, Inv, ModesApart
    <3>. QED
      BY <2>1, <2>2, <3>1, QuietInv
  <2>3. CASE Fault /\ eraser' = "none" /\ UNCHANGED doomed
    BY <2>1, <2>3, FaultCounted, QuietInv
  <2>. QED
    BY <1>2, <2>2, <2>3 DEF EraseBegins
<1>3. CASE SecondDieErased
  BY <1>3, QuietInv DEF SecondDieErased
<1>4. CASE UNCHANGED vars
  BY <1>4, QuietInv DEF vars, usbVars, Inv, ModesApart
<1>. QED
  BY <1>1, <1>2, <1>3, <1>4, TryCreateNewPageInv, SelectPageInv, WriteChunkInv,
     FirstDieErasedInv, BootInv, PowerLossInv DEF Next

LEMMA Invariant == Spec => [](TypeOK /\ Inv)
BY InitType, InitInv, StepType, StepInv, PTL DEF Spec

-----------------------------------------------------------------------------
(* The properties *)

\* Without faults the writer takes the lowest page that reads erased, and halts
\* only when none does, for every size of the memory and any number of power
\* losses (find_next_empty_page, try_create_new_page).
THEOREM NoPageSkipped == Spec => []NoEmptyPageSkipped
<1>1. TypeOK /\ Inv => NoEmptyPageSkipped
  <2>. SUFFICES ASSUME TypeOK, Inv, faults = 0
                PROVE  /\ writer.stage = "aqured" =>
                            \A p \in Pages : p < writer.dest => ~HeaderBlank(p)
                       /\ writer.stage = "halted" => \A p \in Pages : ~HeaderBlank(p)
    BY DEF NoEmptyPageSkipped
  <2>1. writer.stage # "idle" => mode = "recorder"
    BY DEF Inv, ModesApart, IdleWriter
  <2>2. writer.dest \in Nat /\ \A p \in Pages : p \in Nat
    BY Names DEF TypeOK
  <2>. QED
    BY <2>1, <2>2 DEF Inv, NoneSkipped, InHand
<1>. QED
  BY Invariant, <1>1, PTL

\* Faults or not, the whole blocks of a boot lie in the memory in the order they
\* were recorded (try_create_new_page, write, find_next_empty_page).
THEOREM BlocksInOrder == Spec => []SeriesInOrder
<1>1. Inv => SeriesInOrder
  BY DEF Inv, HeadersInOrder, SeriesInOrder
<1>. QED
  BY Invariant, <1>1, PTL

\* Without faults, data_use.hs covers every block recorded since the last clear
\* began, whatever power losses came in between (init, build_files_table).
THEOREM UsedFileComplete == Spec => []UsedFileCovers
<1>1. Inv => UsedFileCovers
  BY DEF Inv, NoneSkipped, UsedFileCovers, InUsedFile
<1>. QED
  BY Invariant, <1>1, PTL

-----------------------------------------------------------------------------
(* The memory implements the log *)

\* What the mapping makes of a page.
Entry(p) == IF Complete(p) THEN flash[p][1] ELSE IF FreeYet(p) THEN 0 ELSE -1

Entries == [p \in Pages |-> Entry(p)]

\* A blank page is free, and one with something in it that is neither of a block
\* nor of the one in hand is lost.
LEMMA EntryKinds ==
  ASSUME NEW p \in Pages
  PROVE  /\ Complete(p) <=> Entry(p) = flash[p][1] /\ flash[p][1] \in Blocks
         /\ Entry(p) \in {0, -1} \cup Blocks
         /\ ~Complete(p) => (Entry(p) = 0 <=> FreeYet(p)) /\ Entry(p) \in {0, -1}
<1>1. 0 \notin Blocks /\ -1 \notin Blocks
  BY Names
<1>. QED
  BY <1>1 DEF Entry, Complete

\* A page whose chunks stay is mapped to the same, unless it is in hand.
LEMMA EntryStays ==
  ASSUME NEW p \in Pages, \A c \in Chunks : flash'[p][c] = flash[p][c],
         ~(writer.stage = "writing" /\ writer.dest = p),
         ~(writer'.stage = "writing" /\ writer'.dest = p /\ writer'.chunk # 1)
  PROVE  Entry(p)' = Entry(p)
<1>1. \A c \in Chunks : c \in Nat \ {0}
  BY Names DEF Chunks
<1>2. Complete(p)' <=> Complete(p)
  BY Names DEF Complete
<1>3. FreeYet(p) <=> \A c \in Chunks : flash[p][c] = Blank
  BY DEF FreeYet
<1>4. FreeYet(p)' <=> \A c \in Chunks : flash'[p][c] = Blank
  BY <1>1 DEF FreeYet
<1>. QED
  BY <1>2, <1>3, <1>4, Names DEF Entry

\* The page in hand holds no whole block before its last chunk is written.
LEMMA DestNotComplete ==
  ASSUME TypeOK, Inv, writer.stage = "writing"
  PROVE  ~Complete(writer.dest)
<1>1. /\ writer.dest \in Pages /\ writer.chunk \in Chunks /\ writer.chunk \in Nat
      /\ flash[writer.dest][1] \in {Blank, Torn, Scratched, writer.block}
      /\ flash[writer.dest][writer.chunk] # writer.block
  <2>1. writer.dest \in Pages /\ writer.chunk \in Chunks /\ writer.chunk \in Nat
    BY Names DEF TypeOK
  <2>. QED
    BY <2>1 DEF Inv, PageInHand, InHand
<1>. QED
  BY <1>1, Names DEF Complete

\* A change of one page is a step of the log, or none.
LEMMA OnePageStep ==
  ASSUME NEW d \in Pages, eraser # "first", eraser' # "first",
         \A p \in Pages : p # d => Entry(p)' = Entry(p),
         \/ Entry(d)' = Entry(d)
         \/ Entry(d) = 0 /\ Entry(d)' = -1
         \/ /\ Entry(d) = 0 /\ Entry(d)' \in Blocks
            /\ \A q \in Pages : Entry(q) < Entry(d)'
  PROVE  [Log!Next]_(Log!vars)
<1>. USE DEF Entry, Entries
<1>1. CASE Entry(d)' = Entry(d)
  <2>1. Entries' = Entries
    BY <1>1
  <2>. QED
    BY <2>1 DEF Log!vars
<1>2. CASE Entry(d) = 0 /\ Entry(d)' = -1
  <2>1. Entries' = [Entries EXCEPT ![d] = -1] /\ Entries[d] = 0
    BY <1>2
  <2>2. Log!Lose(d)
    BY <2>1 DEF Log!Lose, Log!Free, Log!Lost
  <2>. QED
    BY <2>2 DEF Log!Next
<1>3. CASE /\ Entry(d) = 0 /\ Entry(d)' \in Blocks
           /\ \A q \in Pages : Entry(q) < Entry(d)'
  <2>1. PICK b \in Blocks : b = Entry(d)'
    BY <1>3
  <2>2. /\ Entries' = [Entries EXCEPT ![d] = b] /\ Entries[d] = 0
        /\ \A q \in Pages : Entries[q] < b
    BY <1>3, <2>1
  <2>3. Log!Append(d, b)
    BY <2>2 DEF Log!Append, Log!Free
  <2>. QED
    BY <2>1, <2>3 DEF Log!Next
<1>. QED
  BY <1>1, <1>2, <1>3

\* A program appends the block with the last chunk of a page that has gone well,
\* loses the page when it goes wrong, and is no step of the log otherwise.
LEMMA WriteChunkStep ==
  ASSUME TypeOK, Inv, WriteChunk
  PROVE  [Log!Next]_(Log!vars)
<1>. PICK d, k, b : d = writer.dest /\ k = writer.chunk /\ b = writer.block
  OBVIOUS
<1>1. /\ d \in Pages /\ k \in Chunks /\ writer.stage = "writing"
      /\ eraser' = eraser /\ mode = "recorder"
      /\ writer'.dest = d /\ writer'.block = b
      /\ \/ writer'.stage = "idle"
         \/ writer'.stage = "writing" /\ writer'.chunk = k + 1 /\ ~failure /\ k # ChunkCount
      /\ \A p \in Pages, c \in Chunks : p # d \/ c # k => flash'[p][c] = flash[p][c]
  BY WriteChunkEffect
<1>2. /\ failure => UNCHANGED flash /\ writer'.stage = "idle"
      /\ ~failure => /\ \/ flash'[d][k] = Torn
                        \/ flash[d][k] = Blank /\ flash'[d][k] = b
                     /\ k = ChunkCount <=> writer'.stage = "idle"
  BY WriteChunkEffect
<1>3. /\ b \in Blocks /\ b = recorded
      /\ flash[d][1] \in {Blank, Torn, Scratched, b}
      /\ \A p \in Pages, c \in Chunks : flash[p][c] = b => p = d /\ c < k
  BY <1>1 DEF Inv, PageInHand, InHand
<1>4. k \in Nat \ {0} /\ 1 \in Chunks /\ \A c \in Chunks : c \in 1 .. ChunkCount
  BY <1>1, Names DEF Chunks
<1>5. eraser # "first" /\ eraser' # "first"
  BY <1>1 DEF Inv, ModesApart
<1>6. ASSUME NEW p \in Pages, p # d
      PROVE  Entry(p)' = Entry(p)
  BY <1>1, <1>6, EntryStays
<1>7. ~Complete(d)
  BY <1>1, DestNotComplete
<1>8. FreeYet(d) <=> \A c \in Chunks : flash[d][c] = Blank \/ (c < k /\ flash[d][c] = b)
  BY <1>1 DEF FreeYet
<1>9. CASE failure
  <2>1. ~Complete(d)'
    BY <1>2, <1>7, <1>9 DEF Complete
  <2>2. FreeYet(d)' => FreeYet(d)
    BY <1>2, <1>8, <1>9 DEF FreeYet
  <2>3. Entry(d)' = Entry(d) \/ (Entry(d) = 0 /\ Entry(d)' = -1)
    BY <1>7, <2>1, <2>2 DEF Entry
  <2>. QED
    BY <1>1, <1>5, <1>6, <2>3, OnePageStep
<1>10. CASE ~failure /\ flash'[d][k] = Torn
  <2>1. ~Complete(d)' /\ ~FreeYet(d)'
    BY <1>1, <1>3, <1>10, Names DEF Complete, FreeYet
  <2>2. Entry(d)' = -1 /\ Entry(d) \in {0, -1}
    BY <1>7, <2>1 DEF Entry
  <2>. QED
    BY <1>1, <1>5, <1>6, <2>2, OnePageStep
<1>11. CASE ~failure /\ flash[d][k] = Blank /\ flash'[d][k] = b /\ k # ChunkCount
  <2>1. writer'.stage = "writing" /\ writer'.chunk = k + 1
    BY <1>1, <1>2, <1>11
  <2>2. flash[d][ChunkCount] # b /\ flash'[d][ChunkCount] = flash[d][ChunkCount]
    BY <1>1, <1>3, <1>4, <1>11, Names
  <2>3. ~Complete(d)'
    BY <1>1, <1>11, <2>2, Names DEF Complete
  <2>4. FreeYet(d)' <=>
          \A c \in Chunks : flash'[d][c] = Blank \/ (c < k + 1 /\ flash'[d][c] = b)
    BY <1>1, <2>1 DEF FreeYet
  <2>5. FreeYet(d)' <=> FreeYet(d)
    BY <1>1, <1>4, <1>8, <1>11, <2>4
  <2>6. Entry(d)' = Entry(d)
    BY <1>7, <2>3, <2>5 DEF Entry
  <2>. QED
    BY <1>1, <1>5, <1>6, <2>6, OnePageStep
<1>12. CASE ~failure /\ flash[d][k] = Blank /\ flash'[d][k] = b /\ k = ChunkCount
  <2>1. writer'.stage = "idle" /\ \A c \in Chunks : c # k => c < k
    BY <1>2, <1>4, <1>12
  <2>2. CASE Complete(d)'
    <3>1. flash'[d][1] = b /\ \A c \in Chunks : c # k => flash[d][c] = b
      BY <1>1, <1>4, <1>12, <2>2 DEF Complete
    <3>2. FreeYet(d)
      BY <1>8, <1>12, <2>1, <3>1
    <3>3. Entry(d) = 0 /\ Entry(d)' = b
      BY <1>7, <2>2, <3>1, <3>2 DEF Entry
    <3>4. \A q \in Pages : Entry(q) < b
      <4>. SUFFICES ASSUME NEW q \in Pages PROVE Entry(q) < b
        OBVIOUS
      <4>1. flash[q][1] \in Int /\ flash[q][1] <= b /\ b \in Nat \ {0}
        BY <1>3, <1>4, ContentNumber, Names DEF Inv, HoldsRecorded
      <4>2. Complete(q) => flash[q][1] # b
        BY <1>3, <1>4, <1>7
      <4>. QED
        BY <4>1, <4>2 DEF Entry
    <3>. QED
      BY <1>1, <1>3, <1>5, <1>6, <3>3, <3>4, OnePageStep
  <2>3. CASE ~Complete(d)'
    <3>1. ~FreeYet(d)'
      BY <1>1, <1>3, <1>12, <2>1, Names DEF FreeYet
    <3>2. Entry(d)' = -1 /\ Entry(d) \in {0, -1}
      BY <1>7, <2>3, <3>1 DEF Entry
    <3>. QED
      BY <1>1, <1>5, <1>6, <3>2, OnePageStep
  <2>. QED
    BY <2>2, <2>3
<1>. QED
  BY <1>2, <1>9, <1>10, <1>11, <1>12

\* A power loss while a page is written loses at most that page.
LEMMA CutWriteStep ==
  ASSUME TypeOK, Inv, PowerLoss, eraser # "first"
  PROVE  [Log!Next]_(Log!vars)
<1>1. eraser' = "none" /\ writer' = IdleWriter /\ writer'.stage = "idle"
  BY DEF PowerLoss, IdleWriter
<1>2. CASE writer.stage # "writing"
  <2>1. UNCHANGED flash
    BY <1>2 DEF PowerLoss
  <2>2. \A p \in Pages : Entry(p)' = Entry(p)
    BY <1>1, <1>2, <2>1, EntryStays
  <2>. QED
    BY <1>1, <2>2, Names, OnePageStep
<1>3. CASE writer.stage = "writing"
  <2>. PICK d, k, b : d = writer.dest /\ k = writer.chunk /\ b = writer.block
    OBVIOUS
  <2>1. /\ d \in Pages /\ k \in Chunks /\ 1 \in Chunks /\ k \in Nat
        /\ flash[d][1] \in {Blank, Torn, Scratched, b}
        /\ flash[d][k] # b /\ b \in Blocks
    BY <1>3, Names DEF TypeOK, Inv, PageInHand, InHand
  <2>2. \A p \in Pages, c \in Chunks : p # d \/ c # k => flash'[p][c] = flash[p][c]
    <3>1. CASE failure
      BY <3>1 DEF PowerLoss
    <3>2. CASE ~failure
      BY <1>3, <3>2 DEF PowerLoss, TypeOK
    <3>. QED
      BY <3>1, <3>2
  <2>3. flash'[d][k] \in {flash[d][k], Blank, Torn, Scratched}
    BY <2>1, PowerLossEffect
  <2>4. ASSUME NEW p \in Pages, p # d
        PROVE  Entry(p)' = Entry(p)
    BY <1>1, <2>2, <2>4, EntryStays
  <2>5. ~Complete(d) /\ ~Complete(d)'
    <3>1. flash'[d][k] # b /\ flash'[d][1] \in {Blank, Torn, Scratched, b}
      BY <2>1, <2>2, <2>3, Names
    <3>. QED
      BY <1>3, <2>1, <3>1, DestNotComplete, Names DEF Complete
  <2>6. FreeYet(d)' => FreeYet(d)
    <3>1. flash'[d][k] = Blank => flash[d][k] = Blank
      <4>1. InterruptedProgram(k, flash[d][k]) \subseteq {flash[d][k], Torn, Scratched}
        BY DEF InterruptedProgram
      <4>2. flash'[d][k] \in {flash[d][k], Torn, Scratched}
        BY <1>3, <2>1, <4>1 DEF PowerLoss, TypeOK
      <4>. QED
        BY <4>2, Names
    <3>2. FreeYet(d)' => \A c \in Chunks : flash'[d][c] = Blank
      BY <1>1 DEF FreeYet
    <3>. QED
      BY <2>1, <2>2, <3>1, <3>2 DEF FreeYet
  <2>7. Entry(d)' = Entry(d) \/ (Entry(d) = 0 /\ Entry(d)' = -1)
    BY <2>5, <2>6 DEF Entry
  <2>. QED
    BY <1>1, <2>1, <2>4, <2>7, OnePageStep
<1>. QED
  BY <1>2, <1>3

\* A power loss while the memory is cleared leaves each page as it was, free or
\* lost.
LEMMA CutClearStep ==
  ASSUME TypeOK, Inv, PowerLoss, eraser = "first"
  PROVE  [Log!Next]_(Log!vars)
<1>1. /\ eraser' = "none" /\ writer' = IdleWriter /\ writer = IdleWriter
      /\ \A p \in Pages : flash'[p] \in InterruptedErase(flash[p])
  BY DEF PowerLoss, Inv, ModesApart, IdleWriter
<1>2. writer.stage = "idle" /\ writer'.stage = "idle"
  BY <1>1 DEF IdleWriter
<1>3. ASSUME NEW p \in Pages
      PROVE  Entry(p)' \in {Entry(p), 0, -1}
  <2>1. CASE flash'[p] = flash[p]
    BY <1>2, <2>1, EntryStays
  <2>2. CASE flash'[p] # flash[p]
    <3>1. flash'[p][1] \in {Blank, Torn, Scratched}
      BY <1>1, <2>2, Names DEF InterruptedErase, BlankPage
    <3>. QED
      BY <3>1, Names DEF Entry, Complete
  <2>. QED
    BY <2>1, <2>2
<1>4. \A p \in Pages : Entry(p) \in {0, -1} \cup Blocks
  BY EntryKinds
<1>5. Log!CutClear
  <2>1. Entries' \in [Pages -> {0, -1} \cup Blocks]
    BY <1>3, <1>4 DEF Entries
  <2>2. \A p \in Pages : Entries'[p] \in {Entries[p], 0, -1}
    BY <1>3 DEF Entries
  <2>. QED
    BY <1>1, <2>1, <2>2 DEF Log!CutClear, Log!Free, Log!Lost, Entries, Entry
<1>. QED
  BY <1>5 DEF Log!Next

\* The end of the erase of the first die is the clear of the log.
LEMMA ClearStep ==
  ASSUME TypeOK, Inv, FirstDieErased
  PROVE  [Log!Next]_(Log!vars)
<1>1. \A p \in Pages, c \in Chunks : flash'[p][c] = Blank
  BY DEF FirstDieErased, BlankPage
<1>2. ASSUME NEW p \in Pages
      PROVE  Entry(p)' = 0
  BY <1>1, Names DEF Entry, Complete, FreeYet
<1>3. Entries' = [p \in Pages |-> 0] /\ eraser = "first" /\ eraser' = "second"
  BY <1>2 DEF Entries, FirstDieErased
<1>4. Log!Clear
  BY <1>3 DEF Log!Clear, Log!Free, Entries, Entry
<1>. QED
  BY <1>4 DEF Log!Next

\* The steps that write nothing do not touch the log, but one begins a clear.
LEMMA OtherStep ==
  ASSUME TypeOK, Inv, UNCHANGED flash,
         writer'.stage = "writing" => writer' = writer \/ writer'.chunk = 1,
         writer.stage = "writing" => writer' = writer,
         UNCHANGED eraser \/ (eraser # "first" /\ eraser' # "first")
           \/ (eraser # "first" /\ eraser' = "first")
  PROVE  [Log!Next]_(Log!vars)
<1>1. ASSUME NEW p \in Pages
      PROVE  Entry(p)' = Entry(p)
  <2>1. CASE writer' = writer
    BY <2>1 DEF Entry, Complete, FreeYet
  <2>2. CASE writer' # writer
    BY <2>2, EntryStays
  <2>. QED
    BY <2>1, <2>2
<1>2. Entries' = Entries
  BY <1>1 DEF Entries
<1>3. CASE (eraser = "first") = (eraser' = "first")
  BY <1>2, <1>3 DEF Log!vars, Entries, Entry
<1>4. CASE eraser # "first" /\ eraser' = "first"
  <2>1. Log!BeginClear
    BY <1>2, <1>4 DEF Log!BeginClear, Entries, Entry
  <2>. QED
    BY <2>1 DEF Log!Next
<1>. QED
  BY <1>3, <1>4

LEMMA StepOfLog ==
  ASSUME TypeOK, Inv, [Next]_vars
  PROVE  [Log!Next]_(Log!vars)
<1>1. CASE TryCreateNewPage
  <2>1. UNCHANGED <<flash, eraser>> /\ writer.stage = "idle" /\ writer'.stage # "writing"
    BY <1>1 DEF TryCreateNewPage, usbVars, TypeOK
  <2>. QED
    BY <2>1, OtherStep
<1>2. CASE SelectPage
  <2>1. UNCHANGED <<flash, eraser>> /\ writer.stage = "aqured" /\ writer.chunk = 1
    BY <1>2 DEF SelectPage, usbVars, Inv, PageInHand, InHand
  <2>2. writer'.stage = "writing" => writer'.chunk = 1
    BY <1>2, <2>1 DEF SelectPage, WriteEnds, TypeOK
  <2>. QED
    BY <2>1, <2>2, OtherStep
<1>3. CASE FlashErease
  <2>1. UNCHANGED <<flash, writer>> /\ eraser' \in {eraser, "posted"}
        /\ eraser # "first"
    BY <1>3 DEF FlashErease, Inv, ModesApart
  <2>. QED
    BY <2>1, OtherStep
<1>4. CASE EraseBegins
  BY <1>4, OtherStep DEF EraseBegins
<1>5. CASE SecondDieErased
  BY <1>5, OtherStep DEF SecondDieErased
<1>6. CASE Boot
  BY <1>6, OtherStep DEF Boot, usbVars
<1>7. CASE UNCHANGED vars
  BY <1>7, OtherStep DEF vars, usbVars
<1>. QED
  BY <1>1, <1>2, <1>3, <1>4, <1>5, <1>6, <1>7, WriteChunkStep, ClearStep, CutWriteStep, CutClearStep
     DEF Next

LEMMA InitOfLog == Init => Log!Init
<1>. SUFFICES ASSUME Init PROVE Log!Init
  OBVIOUS
<1>1. \A p \in Pages, c \in Chunks : flash[p][c] = Blank
  BY DEF Init, BlankPage
<1>2. \A p \in Pages : Entry(p) = 0
  BY <1>1, Names DEF Entry, Complete, FreeYet
<1>3. eraser # "first"
  BY DEF Init
<1>. QED
  BY <1>2, <1>3 DEF Log!Init, Log!Free, Entry

\* The memory implements the log, for every size, with faults and power losses at
\* any step: a whole block only goes with a clear, a failed or interrupted write
\* costs its own page, and blocks are appended youngest last (write,
\* try_create_new_page, flash_erease).
THEOREM MemoryImplementsLog == Spec => LogSpec
<1>1. TypeOK /\ Inv /\ [Next]_vars => [Log!Next]_(Log!vars)
  BY StepOfLog
<1>. QED
  BY InitOfLog, Invariant, <1>1, PTL DEF Spec, LogSpec, Log!Spec

=============================================================================

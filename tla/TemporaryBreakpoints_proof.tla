--------------------- MODULE TemporaryBreakpoints_proof ---------------------
(* Theorems about Breakpoints.tla, for every memory, word size and choice   *)
(* of addresses, and, behind them, about TemporaryBreakpoints.tla:          *)
(* step_over and step_out leave no trace, for every line table in ascending *)
(* order, every word size and any number of the user's breakpoints.  The    *)
(* first part uses nothing of TemporaryBreakpoints.                         *)
(*                                                                          *)
(* What the memory holds is proved of KeepsRest, that is, of x86-64: on     *)
(* aarch64 a single breakpoint already refutes it.                          *)
EXTENDS TemporaryBreakpoints, TLAPS

-------------------------------------------------------------------------------
(* Breakpoints.tla: the table and the memory under it.                      *)

(* A word's own address is one of its cells. *)
LEMMA WindowFacts ==
    ASSUME NEW a \in Sites \union WriteSites
    PROVE  /\ a \in Window(a)
           /\ Window(a) \subseteq Addr
  BY BreakpointsAssumption DEF Window

(* enable() leaves a trap at the breakpoint's address and, where the mask   *)
(* keeps the rest of the word, changes no other cell.                       *)
LEMMA EnabledMemFacts ==
    ASSUME NEW m \in [Addr -> Cell], NEW a \in Sites
    PROVE  /\ EnabledMem(m, a) \in [Addr -> Cell]
           /\ KeepsRest => EnabledMem(m, a) = [m EXCEPT ![a] = Trap]
           /\ Enabled(m, a) \in Breakpoint(a)
           /\ Enabled(m, a).enabled = TRUE
           /\ \A c \in Window(a) : Enabled(m, a).staging_data[c] = m[c]
  <1>1. a \in Window(a) /\ Window(a) \subseteq Addr
    BY WindowFacts
  <1>2. PeekWord(m, a) \in [Window(a) -> Cell]
    BY <1>1 DEF PeekWord
  <1>3. ASSUME KeepsRest PROVE EnabledMem(m, a) = [m EXCEPT ![a] = Trap]
    BY <1>1, <1>3 DEF EnabledMem, PokeWord, BreakpointInstrument, PeekWord
  <1>4. EnabledMem(m, a) \in [Addr -> Cell]
    BY <1>1, <1>2 DEF EnabledMem, PokeWord, BreakpointInstrument, PeekWord, Cell
  <1>5. /\ Enabled(m, a) \in Breakpoint(a)
        /\ Enabled(m, a).enabled = TRUE
    BY <1>2 DEF Enabled, Breakpoint
  <1>6. \A c \in Window(a) : Enabled(m, a).staging_data[c] = m[c]
    BY DEF Enabled, PeekWord
  <1>7. QED
    BY <1>3, <1>4, <1>5, <1>6

(* disable() puts the saved word back and changes nothing outside it.       *)
LEMMA DisabledMemFacts ==
    ASSUME NEW m \in [Addr -> Cell], NEW a \in Sites, NEW bp \in Breakpoint(a)
    PROVE  /\ DisabledMem(m, a, bp) \in [Addr -> Cell]
           /\ \A c \in Addr : DisabledMem(m, a, bp)[c] =
                    IF c \in Window(a) THEN bp.staging_data[c] ELSE m[c]
  <1>1. Window(a) \subseteq Addr
    BY WindowFacts
  <1>2. bp.staging_data \in [Window(a) -> Cell]
    BY DEF Breakpoint
  <1>3. QED
    BY <1>1, <1>2 DEF DisabledMem, PokeWord

(* disable() straight after enable() is the identity, whatever memory held: *)
(* the saved word is all that is needed to undo one breakpoint.             *)
THEOREM DisableUndoesEnable ==
    ASSUME NEW m \in [Addr -> Cell], NEW a \in Sites
    PROVE  DisabledMem(EnabledMem(m, a), a, Enabled(m, a)) = m
  <1>1. a \in Window(a) /\ Window(a) \subseteq Addr
    BY WindowFacts
  <1>2. QED
    BY <1>1, EnabledMemFacts DEF DisabledMem, EnabledMem, PokeWord,
       BreakpointInstrument, PeekWord, Enabled

-------------------------------------------------------------------------------
(* Every cell keeps its type, every entry its own word: of set_breakpoint,  *)
(* remove_breakpoint, step_over_breakpoint and `memory write` alike.        *)
LEMMA TypeInit == Init => TypeOK
  BY BreakpointsAssumption DEF Init, TypeOK, Cell

LEMMA SetKeepsType ==
    ASSUME TypeOK, NEW a \in Sites, mem' = EnabledMem(mem, a),
           m_breakpoints' = With(m_breakpoints, a, Enabled(mem, a)),
           UNCHANGED image
    PROVE  TypeOK'
  <1>1. mem' \in [Addr -> Cell] /\ Enabled(mem, a) \in Breakpoint(a)
    BY EnabledMemFacts DEF TypeOK
  <1>2. /\ DOMAIN m_breakpoints' = DOMAIN m_breakpoints \union {a}
        /\ m_breakpoints' = [b \in DOMAIN m_breakpoints' |-> m_breakpoints'[b]]
        /\ m_breakpoints'[a] = Enabled(mem, a)
        /\ \A b \in DOMAIN m_breakpoints \ {a} : m_breakpoints'[b] = m_breakpoints[b]
    BY DEF With
  <1>3. ASSUME NEW b \in DOMAIN m_breakpoints'
        PROVE  m_breakpoints'[b] \in Breakpoint(b)
    BY <1>1, <1>2 DEF TypeOK
  <1>4. QED
    BY <1>1, <1>2, <1>3 DEF TypeOK, Breakpoint, Window

LEMMA RemoveKeepsType ==
    ASSUME TypeOK, NEW a \in Sites, RemoveBreakpoint(a)
    PROVE  TypeOK'
  <1>1. m_breakpoints[a] \in Breakpoint(a) /\ mem \in [Addr -> Cell]
    BY DEF TypeOK, RemoveBreakpoint, InTable
  <1>2. mem' \in [Addr -> Cell]
    BY <1>1, DisabledMemFacts DEF RemoveBreakpoint
  <1>3. /\ DOMAIN m_breakpoints' = DOMAIN m_breakpoints \ {a}
        /\ m_breakpoints' = [b \in DOMAIN m_breakpoints' |-> m_breakpoints'[b]]
        /\ \A b \in DOMAIN m_breakpoints \ {a} : m_breakpoints'[b] = m_breakpoints[b]
    BY DEF RemoveBreakpoint, Without
  <1>4. QED
    BY <1>2, <1>3 DEF TypeOK, RemoveBreakpoint, Breakpoint, Window

LEMMA DisableKeepsType ==
    ASSUME TypeOK, NEW a \in Sites, StepOverDisable(a)
    PROVE  TypeOK'
  <1>1. a \in DOMAIN m_breakpoints /\ m_breakpoints[a] \in Breakpoint(a)
    BY DEF TypeOK, StepOverDisable, InTable, IsEnabled
  <1>2. mem' \in [Addr -> Cell]
    BY <1>1, DisabledMemFacts DEF StepOverDisable, TypeOK
  <1>3. m_breakpoints' = [m_breakpoints EXCEPT ![a].enabled = FALSE]
    BY DEF StepOverDisable
  <1>4. \A b \in DOMAIN m_breakpoints' : m_breakpoints'[b] \in Breakpoint(b)
    BY <1>1, <1>3 DEF TypeOK, Breakpoint
  <1>5. QED
    BY <1>2, <1>3, <1>4 DEF TypeOK, StepOverDisable, Breakpoint, Window

LEMMA WriteKeepsType ==
    ASSUME TypeOK, NEW a \in WriteSites, NEW w \in [Window(a) -> Code], WriteMemory(a, w)
    PROVE  TypeOK'
  <1>1. Window(a) \subseteq Addr
    BY WindowFacts
  <1>2. mem' \in [Addr -> Cell] /\ image' \in [Addr -> Code]
    BY <1>1 DEF TypeOK, WriteMemory, PokeWord, Cell
  <1>3. QED
    BY <1>2 DEF TypeOK, WriteMemory, Breakpoint, Window

LEMMA TypeStep == TypeOK /\ [Next]_vars => TypeOK'
  <1>1. SUFFICES ASSUME TypeOK, Next PROVE TypeOK'
    BY DEF vars, TypeOK, Breakpoint, Window
  <1>2. CASE \E a \in Sites : SetBreakpointAtAddress(a)
    BY <1>1, <1>2, SetKeepsType DEF SetBreakpointAtAddress
  <1>3. CASE \E a \in Sites : RemoveBreakpoint(a)
    BY <1>1, <1>3, RemoveKeepsType
  <1>4. CASE \E a \in Sites : StepOverDisable(a)
    BY <1>1, <1>4, DisableKeepsType
  <1>5. CASE \E a \in Sites : StepOverEnable(a)
    BY <1>1, <1>5, SetKeepsType DEF StepOverEnable
  <1>6. CASE \E a \in WriteSites : \E w \in [Window(a) -> Code] : WriteMemory(a, w)
    BY <1>1, <1>6, WriteKeepsType
  <1>7. QED
    BY <1>1, <1>2, <1>3, <1>4, <1>5, <1>6 DEF Next, Others

THEOREM TypeCorrect == Spec => []TypeOK
  BY TypeInit, TypeStep, PTL DEF Spec

-------------------------------------------------------------------------------
(* On x86-64, where the mask keeps the rest of the word: breakpoints that   *)
(* overlap, and breakpoints set again, can leave a trap behind, at an       *)
(* address a breakpoint was asked for, but every other cell is the          *)
(* program's: for every spacing and every order of set_breakpoint,          *)
(* remove_breakpoint and step_over_breakpoint, so long as nobody writes     *)
(* memory.                                                                  *)
THEOREM OnlyTrapsAreForeign ==
    ASSUME KeepsRest, WriteSites = {}
    PROVE  Spec => []NoForeignCells
  <1> DEFINE Inv == TypeOK /\ NoForeignCells /\ StagingIsAccounted
  <1>1. Init => Inv
    BY TypeInit DEF Init, NoForeignCells, StagingIsAccounted
  <1>2. Inv /\ [Next]_vars => Inv'
    <2>1. SUFFICES ASSUME Inv, Next, TypeOK' PROVE NoForeignCells' /\ StagingIsAccounted'
      <3>1. CASE UNCHANGED vars
        BY <3>1 DEF vars, TypeOK, NoForeignCells, StagingIsAccounted, Breakpoint, Window
      <3>2. TypeOK /\ Next => TypeOK'
        BY TypeStep
      <3>3. QED
        BY <3>1, <3>2
    <2>2. ASSUME NEW a \in Sites, mem' = EnabledMem(mem, a),
                 m_breakpoints' = With(m_breakpoints, a, Enabled(mem, a)),
                 UNCHANGED image
          PROVE  NoForeignCells' /\ StagingIsAccounted'
      <3>1. NoForeignCells'
        <4>1. mem' = [mem EXCEPT ![a] = Trap]
          BY <2>1, <2>2, EnabledMemFacts DEF TypeOK
        <4>2. QED
          BY <2>1, <2>2, <4>1 DEF TypeOK, NoForeignCells
      <3>2. ASSUME NEW b \in DOMAIN m_breakpoints', NEW c \in Window(b)
            PROVE  \/ m_breakpoints'[b].staging_data[c] = image[c]
                   \/ m_breakpoints'[b].staging_data[c] = Trap /\ c \in Sites
        <4>1. CASE b = a
          <5>1. m_breakpoints'[b] = Enabled(mem, a)
            BY <2>2, <4>1 DEF With
          <5>2. m_breakpoints'[b].staging_data[c] = mem[c] /\ c \in Addr
            BY <2>1, <4>1, <5>1, WindowFacts DEF Enabled, PeekWord
          <5>3. QED
            BY <2>1, <5>2 DEF NoForeignCells
        <4>2. CASE b # a
          <5>1. b \in DOMAIN m_breakpoints /\ m_breakpoints'[b] = m_breakpoints[b]
            BY <2>2, <4>2 DEF With
          <5>2. QED
            BY <2>1, <5>1 DEF StagingIsAccounted
        <4>3. QED
          BY <4>1, <4>2
      <3>3. QED
        BY <2>2, <3>1, <3>2 DEF StagingIsAccounted, Window
    <2>3. ASSUME NEW a \in Sites, InTable(a), UNCHANGED image,
                 mem' = DisabledMem(mem, a, m_breakpoints[a])
          PROVE  NoForeignCells'
      <3>1. m_breakpoints[a] \in Breakpoint(a)
        BY <2>1, <2>3 DEF TypeOK, InTable
      <3>2. \A c \in Window(a) :
                \/ m_breakpoints[a].staging_data[c] = image[c]
                \/ m_breakpoints[a].staging_data[c] = Trap /\ c \in Sites
        BY <2>1, <2>3 DEF StagingIsAccounted, InTable
      <3>3. QED
        BY <2>1, <2>3, <3>1, <3>2, DisabledMemFacts DEF TypeOK, NoForeignCells
    <2>4. CASE \E a \in Sites : SetBreakpointAtAddress(a)
      BY <2>2, <2>4 DEF SetBreakpointAtAddress
    <2>5. CASE \E a \in Sites : StepOverEnable(a)
      BY <2>2, <2>5 DEF StepOverEnable
    <2>6. CASE \E a \in Sites : RemoveBreakpoint(a)
      <3>1. PICK a \in Sites : RemoveBreakpoint(a)
        BY <2>6
      <3>2. NoForeignCells'
        BY <2>1, <2>3, <3>1 DEF RemoveBreakpoint, NoForeignCells
      <3>3. StagingIsAccounted'
        BY <2>1, <3>1 DEF RemoveBreakpoint, Without, StagingIsAccounted, Window
      <3>4. QED
        BY <3>2, <3>3
    <2>7. CASE \E a \in Sites : StepOverDisable(a)
      <3>1. PICK a \in Sites : StepOverDisable(a)
        BY <2>7
      <3>2. NoForeignCells'
        BY <2>1, <2>3, <3>1 DEF StepOverDisable, IsEnabled
      <3>3. \A b \in DOMAIN m_breakpoints' :
                m_breakpoints'[b].staging_data = m_breakpoints[b].staging_data
        BY <2>1, <3>1 DEF StepOverDisable, IsEnabled, InTable, TypeOK, Breakpoint
      <3>4. StagingIsAccounted'
        BY <2>1, <3>1, <3>3 DEF StepOverDisable, StagingIsAccounted, Window
      <3>5. QED
        BY <3>2, <3>4
    <2>8. QED
      BY <2>1, <2>4, <2>5, <2>6, <2>7 DEF Next, Others
  <1>3. QED
    BY <1>1, <1>2, PTL DEF Spec

-------------------------------------------------------------------------------
(* Breakpoints a word apart never meet: IInv says that every saved word is  *)
(* the program's own, so a trap stands exactly where one was asked for.     *)

(* CarefulSpec only restricts Spec, so it is type correct too.              *)
LEMMA CarefulTypeStep == TypeOK /\ [CarefulNext]_vars => TypeOK'
  BY TypeStep DEF CarefulNext, Next, SetNewBreakpoint

(* A cell another site's word covers is not this site.                      *)
LEMMA ApartFacts ==
    ASSUME Spaced, NEW a \in Sites, NEW b \in Sites, a # b
    PROVE  /\ b \notin Window(a)
           /\ \A c \in Window(b) : c # a /\ c \notin Window(a)
  BY WindowFacts DEF Spaced

LEMMA ExactInit == Init => IInv
  BY TypeInit DEF Init, IInv, TrapsAreExact, StagingIsImage, IsEnabled, InTable,
     TypeOK

(* enable() at an address without an enabled breakpoint, as                 *)
(* set_breakpoint_at_address does behind a count() check and                *)
(* step_over_breakpoint does after its step.                                *)
LEMMA EnableKeepsExact ==
    ASSUME KeepsRest, Spaced, IInv, TypeOK', NEW a \in Sites, ~IsEnabled(a),
           mem' = EnabledMem(mem, a),
           m_breakpoints' = With(m_breakpoints, a, Enabled(mem, a)),
           UNCHANGED image
    PROVE  IInv'
  <1>1. mem' = [mem EXCEPT ![a] = Trap]
    BY EnabledMemFacts DEF IInv, TypeOK
  <1>2. \A c \in Addr : IsEnabled(c)' <=> c = a \/ IsEnabled(c)
    BY DEF IsEnabled, InTable, With, Enabled
  <1>3. TrapsAreExact'
    BY <1>1, <1>2 DEF IInv, TrapsAreExact, TypeOK
  <1>4. ASSUME NEW b \in DOMAIN m_breakpoints', NEW c \in Window(b)
        PROVE  m_breakpoints'[b].staging_data[c] = image[c]
    <2>1. CASE b = a
      <3>1. m_breakpoints'[b].staging_data[c] = mem[c] /\ c \in Addr
        BY <1>4, <2>1, WindowFacts DEF With, Enabled, PeekWord
      <3>2. ~IsEnabled(c)
        BY <1>4, <2>1, ApartFacts DEF IsEnabled, InTable, IInv, TypeOK
      <3>3. QED
        BY <3>1, <3>2 DEF IInv, TrapsAreExact
    <2>2. CASE b # a
      BY <1>4, <2>2 DEF With, IInv, StagingIsImage
    <2>3. QED
      BY <2>1, <2>2
  <1>5. StagingIsImage'
    BY <1>4 DEF StagingIsImage, Window
  <1>6. QED
    BY <1>3, <1>5 DEF IInv

(* disable() of an enabled breakpoint leaves the program's own word.        *)
LEMMA DisableLeavesImage ==
    ASSUME Spaced, IInv, NEW a \in Sites, IsEnabled(a),
           mem' = DisabledMem(mem, a, m_breakpoints[a])
    PROVE  \A c \in Addr : mem'[c] = IF c # a /\ IsEnabled(c) THEN Trap ELSE image[c]
  <1>1. m_breakpoints[a] \in Breakpoint(a)
    BY DEF IInv, TypeOK, IsEnabled, InTable
  <1>2. ASSUME NEW c \in Addr
        PROVE  mem'[c] = IF c \in Window(a) THEN m_breakpoints[a].staging_data[c] ELSE mem[c]
    BY <1>1, <1>2, DisabledMemFacts DEF IInv, TypeOK
  <1>3. ASSUME NEW c \in Addr, c \in Window(a)
        PROVE  /\ m_breakpoints[a].staging_data[c] = image[c]
               /\ c # a => ~IsEnabled(c)
    BY <1>3, ApartFacts DEF IInv, StagingIsImage, IsEnabled, InTable, TypeOK
  <1>4. a \in Window(a)
    BY WindowFacts
  <1>5. QED
    BY <1>2, <1>3, <1>4 DEF IInv, TrapsAreExact

LEMMA ExactStep ==
    ASSUME KeepsRest, Spaced
    PROVE  IInv /\ [CarefulNext]_vars => IInv'
  <1>1. CASE UNCHANGED vars
    BY <1>1 DEF vars, IInv, TypeOK, TrapsAreExact, StagingIsImage, IsEnabled,
       InTable, Breakpoint, Window
  <1>2. SUFFICES ASSUME IInv, CarefulNext, TypeOK' PROVE IInv'
    BY <1>1, CarefulTypeStep DEF IInv
  <1>3. CASE \E a \in Sites : SetNewBreakpoint(a)
    BY <1>2, <1>3, EnableKeepsExact DEF SetNewBreakpoint, SetBreakpointAtAddress, IsEnabled
  <1>4. CASE \E a \in Sites : StepOverEnable(a)
    BY <1>2, <1>4, EnableKeepsExact DEF StepOverEnable
  <1>5. CASE \E a \in Sites : RemoveBreakpoint(a)
    <2>1. PICK a \in Sites : RemoveBreakpoint(a)
      BY <1>5
    <2>2. IsEnabled(a)
      BY <2>1 DEF RemoveBreakpoint, AtRest, IsEnabled, InTable
    <2>3. \A c \in Addr : mem'[c] = IF c # a /\ IsEnabled(c) THEN Trap ELSE image[c]
      BY <1>2, <2>1, <2>2, DisableLeavesImage DEF RemoveBreakpoint
    <2>4. \A c \in Addr : IsEnabled(c)' <=> c # a /\ IsEnabled(c)
      BY <2>1 DEF RemoveBreakpoint, Without, IsEnabled, InTable
    <2>5. TrapsAreExact'
      BY <2>1, <2>3, <2>4 DEF TrapsAreExact, RemoveBreakpoint
    <2>6. StagingIsImage'
      BY <1>2, <2>1 DEF IInv, StagingIsImage, RemoveBreakpoint, Without, Window
    <2>7. QED
      BY <1>2, <2>5, <2>6 DEF IInv
  <1>6. CASE \E a \in Sites : StepOverDisable(a)
    <2>1. PICK a \in Sites : StepOverDisable(a)
      BY <1>6
    <2>2. \A c \in Addr : mem'[c] = IF c # a /\ IsEnabled(c) THEN Trap ELSE image[c]
      BY <1>2, <2>1, DisableLeavesImage DEF StepOverDisable
    <2>3. /\ DOMAIN m_breakpoints' = DOMAIN m_breakpoints
          /\ \A b \in DOMAIN m_breakpoints :
                /\ m_breakpoints'[b].staging_data = m_breakpoints[b].staging_data
                /\ m_breakpoints'[b].enabled = (b # a /\ m_breakpoints[b].enabled)
      BY <1>2, <2>1 DEF StepOverDisable, IsEnabled, InTable, IInv, TypeOK, Breakpoint
    <2>4. TrapsAreExact'
      BY <2>1, <2>2, <2>3 DEF TrapsAreExact, StepOverDisable, IsEnabled, InTable
    <2>5. StagingIsImage'
      BY <1>2, <2>1, <2>3 DEF IInv, StagingIsImage, StepOverDisable, Window
    <2>6. QED
      BY <1>2, <2>4, <2>5 DEF IInv
  <1>7. CASE \E a \in WriteSites : \E w \in [Window(a) -> Code] : WriteMemory(a, w)
    <2>1. PICK a \in WriteSites : \E w \in [Window(a) -> Code] : WriteMemory(a, w)
      BY <1>7
    <2>2. PICK w \in [Window(a) -> Code] : WriteMemory(a, w)
      BY <2>1
    <2>3. \A b \in DOMAIN m_breakpoints : Window(b) \intersect Window(a) = {}
      BY <1>2 DEF Spaced, IInv, TypeOK
    <2>4. \A c \in Window(a) : ~IsEnabled(c)
      BY <1>2, <2>3, WindowFacts DEF IsEnabled, InTable, IInv, TypeOK
    <2>5. TrapsAreExact'
      BY <1>2, <2>2, <2>4 DEF IInv, TypeOK, TrapsAreExact, WriteMemory, PokeWord,
         IsEnabled, InTable
    <2>6. StagingIsImage'
      <3>1. ASSUME NEW b \in DOMAIN m_breakpoints, NEW c \in Window(b)
            PROVE  image'[c] = image[c]
        BY <1>2, <2>2, <2>3, <3>1, WindowFacts DEF WriteMemory, PokeWord, IInv, TypeOK
      <3>2. QED
        BY <1>2, <2>2, <3>1 DEF IInv, StagingIsImage, WriteMemory, Window
    <2>7. QED
      BY <1>2, <2>5, <2>6 DEF IInv
  <1>8. QED
    BY <1>2, <1>3, <1>4, <1>5, <1>6, <1>7 DEF CarefulNext, Others

(* On x86-64, of any number of breakpoints a word or more apart, none set   *)
(* while it is in the table: after every set_breakpoint_at_address,         *)
(* remove_breakpoint, step_over_breakpoint and `memory write` elsewhere,    *)
(* memory is the program's own but for a trap at each enabled breakpoint.   *)
THEOREM SpacedTrapsAreExact ==
    ASSUME KeepsRest, Spaced
    PROVE  CarefulSpec => []TrapsAreExact
  <1>1. IInv => TrapsAreExact
    BY DEF IInv
  <1>2. QED
    BY <1>1, ExactInit, ExactStep, PTL DEF CarefulSpec

-------------------------------------------------------------------------------
(* The refinement mapping: what lies beneath the traps is the program, and  *)
(* the traps stand at the enabled breakpoints.                              *)
LEMMA MappingFacts ==
    ASSUME IInv
    PROVE  /\ Beneath = image
           /\ {c \in Addr : mem[c] = Trap} = {c \in Addr : IsEnabled(c)}
  <1>1. ASSUME NEW c \in Addr, InTable(c)
        PROVE  m_breakpoints[c].staging_data[c] = image[c]
    BY <1>1, WindowFacts DEF IInv, TypeOK, StagingIsImage, InTable
  <1>2. \A c \in Addr : ~InTable(c) => mem[c] = image[c]
    BY DEF IInv, TrapsAreExact, IsEnabled
  <1>3. Beneath = image
    BY <1>1, <1>2 DEF Beneath, IInv, TypeOK
  <1>4. \A c \in Addr : image[c] # Trap
    BY BreakpointsAssumption DEF IInv, TypeOK
  <1>5. QED
    BY <1>3, <1>4 DEF IInv, TrapsAreExact

LEMMA MappingFactsPrime ==
    IInv' => (/\ Beneath = image
              /\ {c \in Addr : mem[c] = Trap} = {c \in Addr : IsEnabled(c)})'
  BY MappingFacts, PTL

LEMMA StepImplements ==
    ASSUME Spaced, IInv, IInv', CarefulNext
    PROVE  Planted!Next \/ UNCHANGED Planted!vars
  <1> DEFINE traps == {c \in Addr : mem[c] = Trap}
  <1>1. /\ Beneath = image /\ traps = {c \in Addr : IsEnabled(c)}
        /\ Beneath' = image' /\ traps' = {c \in Addr : IsEnabled(c)'}
    BY MappingFacts, MappingFactsPrime
  <1>2. Sites \subseteq Addr
    BY BreakpointsAssumption
  <1> HIDE DEF traps
  <1>3. ASSUME NEW a \in Sites, UNCHANGED image,
               m_breakpoints' = With(m_breakpoints, a, Enabled(mem, a))
        PROVE  Planted!Plant(a)
    <2>1. \A c \in Addr : IsEnabled(c)' <=> c = a \/ IsEnabled(c)
      BY <1>3 DEF IsEnabled, InTable, With, Enabled
    <2>2. QED
      BY <1>1, <1>2, <1>3, <2>1 DEF Planted!Plant, traps
  <1>4. CASE \E a \in Sites : SetNewBreakpoint(a)
    BY <1>3, <1>4 DEF SetNewBreakpoint, SetBreakpointAtAddress, Planted!Next
  <1>5. CASE \E a \in Sites : StepOverEnable(a)
    BY <1>3, <1>5 DEF StepOverEnable, Planted!Next
  <1>6. CASE \E a \in Sites : RemoveBreakpoint(a)
    <2>1. PICK a \in Sites : RemoveBreakpoint(a)
      BY <1>6
    <2>2. IsEnabled(a) /\ UNCHANGED image
      BY <2>1 DEF RemoveBreakpoint, AtRest, IsEnabled, InTable
    <2>3. \A c \in Addr : IsEnabled(c)' <=> c # a /\ IsEnabled(c)
      BY <2>1 DEF RemoveBreakpoint, Without, IsEnabled, InTable
    <2>4. Planted!Clear(a)
      BY <1>1, <1>2, <2>2, <2>3 DEF Planted!Clear, traps
    <2>5. QED
      BY <2>4 DEF Planted!Next
  <1>7. CASE \E a \in Sites : StepOverDisable(a)
    <2>1. PICK a \in Sites : StepOverDisable(a)
      BY <1>7
    <2>2. IsEnabled(a) /\ UNCHANGED image
      BY <2>1 DEF StepOverDisable
    <2>3. \A c \in Addr : IsEnabled(c)' <=> c # a /\ IsEnabled(c)
      BY <2>1 DEF StepOverDisable, IsEnabled, InTable, IInv, TypeOK, Breakpoint
    <2>4. Planted!Clear(a)
      BY <1>1, <1>2, <2>2, <2>3 DEF Planted!Clear, traps
    <2>5. QED
      BY <2>4 DEF Planted!Next
  <1>8. CASE \E a \in WriteSites : \E w \in [Window(a) -> Code] : WriteMemory(a, w)
    <2>1. PICK a \in WriteSites : \E w \in [Window(a) -> Code] : WriteMemory(a, w)
      BY <1>8
    <2>2. PICK w \in [Window(a) -> Code] : WriteMemory(a, w)
      BY <2>1
    <2>3. traps' = traps
      BY <1>1, <2>2 DEF WriteMemory, IsEnabled, InTable
    <2>4. image' \in [Addr -> Code] /\ \A c \in Addr \ Window(a) : image'[c] = image[c]
      BY <2>2 DEF WriteMemory, PokeWord, IInv, TypeOK
    <2>5. Planted!Write(a)
      BY <1>1, <2>3, <2>4 DEF Planted!Write, traps, Window
    <2>6. QED
      BY <2>5 DEF Planted!Next
  <1>9. QED
    BY <1>4, <1>5, <1>6, <1>7, <1>8 DEF CarefulNext, Others

(* Under the same conditions, KeepsRest (x86-64) among them, the table is   *)
(* what its callers take it for, a set of planted addresses: one step of it *)
(* plants or clears one address, and the memory saved beneath the traps     *)
(* only a `memory write` changes.                                           *)
THEOREM SpacedTableIsASet ==
    ASSUME KeepsRest, Spaced
    PROVE  CarefulSpec => ImplementsPlantedSet
  <1>1. Init => Planted!Init
    <2>1. SUFFICES ASSUME Init, IInv PROVE Planted!Init
      BY ExactInit
    <2>2. Beneath = image /\ {c \in Addr : mem[c] = Trap} = {c \in Addr : IsEnabled(c)}
      BY <2>1, MappingFacts
    <2>3. {c \in Addr : IsEnabled(c)} = {}
      BY <2>1 DEF Init, IsEnabled, InTable
    <2>4. QED
      BY <2>1, <2>2, <2>3 DEF Planted!Init, IInv, TypeOK
  <1>2. IInv /\ IInv' /\ [CarefulNext]_vars => [Planted!Next]_(Planted!vars)
    <2>1. CASE UNCHANGED vars
      BY <2>1 DEF vars, Planted!vars, Beneath, InTable
    <2>2. QED
      BY <2>1, StepImplements
  <1>3. QED
    BY <1>1, <1>2, ExactInit, ExactStep, PTL DEF CarefulSpec, ImplementsPlantedSet, Planted!Spec

-------------------------------------------------------------------------------
(* TemporaryBreakpoints.tla.                                                *)

(* The list of temporaries as a set, as it grows and shrinks.               *)
LEMMA AppendFacts ==
    ASSUME to_delete \in Seq(Sites), NEW a \in Sites, to_delete' = Append(to_delete, a)
    PROVE  /\ to_delete' \in Seq(Sites)
           /\ Temporaries' = Temporaries \union {a}
           /\ (a \notin Temporaries
                 /\ \A i, j \in DOMAIN to_delete : to_delete[i] = to_delete[j] => i = j)
              => \A i, j \in DOMAIN to_delete' : to_delete'[i] = to_delete'[j] => i = j
  <1>1. /\ to_delete' \in Seq(Sites)
        /\ DOMAIN to_delete' = DOMAIN to_delete \union {Len(to_delete) + 1}
        /\ \A i \in DOMAIN to_delete : to_delete'[i] = to_delete[i]
        /\ to_delete'[Len(to_delete) + 1] = a
        /\ Len(to_delete) + 1 \notin DOMAIN to_delete
    OBVIOUS
  <1>2. Temporaries' = {to_delete'[i] : i \in DOMAIN to_delete'}
    BY DEF Temporaries
  <1>3. Temporaries' = Temporaries \union {a}
    BY <1>1, <1>2 DEF Temporaries
  <1>4. ASSUME a \notin Temporaries,
               \A i, j \in DOMAIN to_delete : to_delete[i] = to_delete[j] => i = j,
               NEW i \in DOMAIN to_delete', NEW j \in DOMAIN to_delete',
               to_delete'[i] = to_delete'[j]
        PROVE  i = j
    BY <1>1, <1>4 DEF Temporaries
  <1>5. QED
    BY <1>1, <1>3, <1>4

LEMMA TailFacts ==
    ASSUME to_delete \in Seq(Sites), to_delete # <<>>, to_delete' = Tail(to_delete),
           \A i, j \in DOMAIN to_delete : to_delete[i] = to_delete[j] => i = j
    PROVE  /\ to_delete' \in Seq(Sites)
           /\ Head(to_delete) \in Temporaries
           /\ Temporaries' = Temporaries \ {Head(to_delete)}
           /\ \A i, j \in DOMAIN to_delete' : to_delete'[i] = to_delete'[j] => i = j
  <1>1. /\ to_delete' \in Seq(Sites)
        /\ Len(to_delete) \in Nat \ {0}
        /\ DOMAIN to_delete = 1 .. Len(to_delete)
        /\ DOMAIN to_delete' = 1 .. (Len(to_delete) - 1)
        /\ \A i \in 1 .. (Len(to_delete) - 1) : to_delete'[i] = to_delete[i + 1]
        /\ Head(to_delete) = to_delete[1]
    OBVIOUS
  <1>2. Head(to_delete) \in Temporaries
    BY <1>1 DEF Temporaries
  <1>3. \A i, j \in DOMAIN to_delete' : to_delete'[i] = to_delete'[j] => i = j
    BY <1>1
  <1>4. Temporaries' = {to_delete'[i] : i \in DOMAIN to_delete'}
    BY DEF Temporaries
  <1>5. ASSUME NEW t \in Temporaries'
        PROVE  t \in Temporaries /\ t # Head(to_delete)
    <2>1. PICK i \in 1 .. (Len(to_delete) - 1) : t = to_delete[i + 1]
      BY <1>1, <1>4, <1>5
    <2>2. i + 1 \in DOMAIN to_delete /\ 1 \in DOMAIN to_delete /\ i + 1 # 1
      BY <1>1, <2>1
    <2>3. QED
      BY <1>1, <2>1, <2>2 DEF Temporaries
  <1>6. ASSUME NEW t \in Temporaries, t # Head(to_delete)
        PROVE  t \in Temporaries'
    <2>1. PICK i \in 1 .. Len(to_delete) : t = to_delete[i]
      BY <1>1, <1>6 DEF Temporaries
    <2>2. i - 1 \in 1 .. (Len(to_delete) - 1) /\ to_delete'[i - 1] = t
      BY <1>1, <1>6, <2>1
    <2>3. QED
      BY <1>1, <1>4, <2>2
  <1>7. QED
    BY <1>1, <1>2, <1>3, <1>5, <1>6

-------------------------------------------------------------------------------
(* What the commands do to the table is what careful callers do to it.      *)
LEMMA TStepIsCareful ==
    TTypeOK /\ [TNext]_tvars =>
        [CarefulNext]_vars /\ phase' \in Phases /\ to_delete' \in Seq(Sites)
  <1>1. SUFFICES ASSUME TTypeOK, [TNext]_tvars
                 PROVE  [CarefulNext]_vars /\ phase' \in Phases /\ to_delete' \in Seq(Sites)
    OBVIOUS
  <1> USE DEF Phases, vars, table_vars
  <1>2. CASE UNCHANGED tvars
    BY <1>1, <1>2 DEF tvars, TTypeOK
  <1>3. CASE \E a \in UserSites : Break(a)
    BY <1>1, <1>3, TemporariesAssumption DEF Break, CarefulNext, TTypeOK
  <1>4. CASE BeginPlanting \/ BeginContinue \/ Continue \/ Stop \/ Return
    BY <1>1, <1>4 DEF BeginPlanting, BeginContinue, Continue, Stop, Return, TTypeOK
  <1>5. CASE \E a \in Rows : PlantRow(a)
    BY <1>1, <1>5, TemporariesAssumption, AppendFacts
       DEF PlantRow, CarefulNext, SetNewBreakpoint, TTypeOK
  <1>6. CASE \E r \in Returns : PlantReturn(r)
    BY <1>1, <1>6, TemporariesAssumption, AppendFacts
       DEF PlantReturn, CarefulNext, SetNewBreakpoint, TTypeOK
  <1>7. CASE \E a \in Sites : Lift(a) \/ Replant(a)
    BY <1>1, <1>7 DEF Lift, Replant, CarefulNext, Others, TTypeOK
  <1>8. CASE RemoveTemporary
    <2>1. Head(to_delete) \in Sites /\ to_delete' \in Seq(Sites)
      BY <1>1, <1>8 DEF RemoveTemporary, TTypeOK
    <2>2. QED
      BY <1>1, <1>8, <2>1 DEF RemoveTemporary, CarefulNext, Others, TTypeOK
  <1>9. QED
    BY <1>1, <1>2, <1>3, <1>4, <1>5, <1>6, <1>7, <1>8 DEF TNext

LEMMA TTypeStep == TTypeOK /\ [TNext]_tvars => TTypeOK'
  BY TStepIsCareful, CarefulTypeStep DEF TTypeOK

LEMMA TInitInv == TInit => TInv
  BY TypeInit DEF TInit, TInv, TTypeOK, Phases, TemporariesAreListed, PhaseIsRight,
     MemoryIsAccounted, StagingIsSettled, Temporaries, UserTable, Init, AtRest,
     IsEnabled, InTable, TypeOK

(* With every breakpoint of the table enabled, memory is settled but at the *)
(* temporaries.                                                             *)
LEMMA SettledApart ==
    ASSUME TInv, AtRest, NEW c \in Addr, c \notin Temporaries
    PROVE  mem[c] = Settled(c)
  BY DEF TInv, MemoryIsAccounted, AtRest, Settled, UserTable, IsEnabled, InTable

(* enable() on a new entry: what it does to the invariant whether the entry *)
(* becomes a temporary or the user's.                                       *)
LEMMA SetNewFacts ==
    ASSUME KeepsRest, TInv, NEW a \in Sites, SetNewBreakpoint(a)
    PROVE  /\ mem' = [mem EXCEPT ![a] = Trap] /\ image' = image
           /\ a \notin DOMAIN m_breakpoints
           /\ DOMAIN m_breakpoints' = DOMAIN m_breakpoints \union {a}
           /\ \A b \in DOMAIN m_breakpoints : m_breakpoints'[b] = m_breakpoints[b]
           /\ \A c \in Window(a) : m_breakpoints'[a].staging_data[c] = mem[c]
           /\ AtRest /\ AtRest'
           /\ a \in Window(a) /\ Window(a) \subseteq Addr
  <1>1. mem' = [mem EXCEPT ![a] = Trap]
    BY EnabledMemFacts DEF TInv, TTypeOK, TypeOK, SetNewBreakpoint, SetBreakpointAtAddress
  <1>2. a \in Window(a) /\ Window(a) \subseteq Addr
    BY WindowFacts
  <1>3. QED
    BY <1>1, <1>2 DEF SetNewBreakpoint, SetBreakpointAtAddress, With, Enabled, PeekWord,
       InTable, AtRest

LEMMA PlantKeepsInv ==
    ASSUME KeepsRest, TInv, NEW a \in Sites, SetNewBreakpoint(a),
           to_delete' = Append(to_delete, a), Window(a) \intersect Temporaries = {}
    PROVE  TemporariesAreListed' /\ MemoryIsAccounted' /\ StagingIsSettled'
  <1>1. /\ mem' = [mem EXCEPT ![a] = Trap] /\ image' = image
        /\ a \notin DOMAIN m_breakpoints
        /\ DOMAIN m_breakpoints' = DOMAIN m_breakpoints \union {a}
        /\ \A b \in DOMAIN m_breakpoints : m_breakpoints'[b] = m_breakpoints[b]
        /\ \A c \in Window(a) : m_breakpoints'[a].staging_data[c] = mem[c]
        /\ AtRest /\ AtRest'
        /\ a \in Window(a) /\ Window(a) \subseteq Addr
    BY SetNewFacts
  <1>2. a \notin Temporaries
    BY <1>1 DEF TInv, TemporariesAreListed
  <1>3. /\ Temporaries' = Temporaries \union {a}
        /\ \A i, j \in DOMAIN to_delete' : to_delete'[i] = to_delete'[j] => i = j
    BY <1>2, AppendFacts DEF TInv, TTypeOK, TemporariesAreListed
  <1>4. UserTable' = UserTable
    BY <1>1, <1>2, <1>3 DEF UserTable
  <1>5. TemporariesAreListed'
    BY <1>1, <1>3, <1>4 DEF TInv, TemporariesAreListed
  <1>6. MemoryIsAccounted'
    BY <1>1, <1>4 DEF TInv, TTypeOK, TypeOK, MemoryIsAccounted, InTable, IsEnabled, UserTable
  <1>7. \A c : Settled(c)' = Settled(c)
    BY <1>1, <1>4 DEF Settled
  <1>8. \A c \in Window(a) : m_breakpoints'[a].staging_data[c] = Settled(c)
    BY <1>1, SettledApart
  <1>9. \A b \in DOMAIN m_breakpoints' : IsEnabled(b)'
    BY <1>1 DEF AtRest, IsEnabled, InTable
  <1>10. \A t \in Temporaries' : \A c \in Window(t) :
            m_breakpoints'[t].staging_data[c] = Settled(c)'
    BY <1>1, <1>3, <1>7, <1>8 DEF TInv, StagingIsSettled, TemporariesAreListed
  <1>11. \A u \in UserTable' : \A c \in Window(u) :
            m_breakpoints'[u].staging_data[c] = image'[c]
    BY <1>1, <1>4 DEF TInv, StagingIsSettled, UserTable
  <1>12. StagingIsSettled'
    BY <1>9, <1>10, <1>11 DEF StagingIsSettled, Window
  <1>13. QED
    BY <1>5, <1>6, <1>12

(* The user's `break`: nothing temporary stands, so the word saved is the   *)
(* program's own as long as no other user's breakpoint lies in it.          *)
LEMMA BreakKeepsInv ==
    ASSUME KeepsRest, UserSpaced, TInv, NEW a \in UserSites, Break(a)
    PROVE  TemporariesAreListed' /\ MemoryIsAccounted' /\ StagingIsSettled'
  <1>1. a \in Sites /\ SetNewBreakpoint(a) /\ to_delete' = to_delete
    BY TemporariesAssumption DEF Break
  <1>2. /\ mem' = [mem EXCEPT ![a] = Trap] /\ image' = image
        /\ a \notin DOMAIN m_breakpoints
        /\ DOMAIN m_breakpoints' = DOMAIN m_breakpoints \union {a}
        /\ \A b \in DOMAIN m_breakpoints : m_breakpoints'[b] = m_breakpoints[b]
        /\ \A c \in Window(a) : m_breakpoints'[a].staging_data[c] = mem[c]
        /\ AtRest /\ AtRest'
        /\ a \in Window(a) /\ Window(a) \subseteq Addr
    BY <1>1, SetNewFacts
  <1>3. Temporaries = {} /\ Temporaries' = {}
    BY <1>1 DEF TInv, PhaseIsRight, Break, Temporaries
  <1>4. /\ UserTable = DOMAIN m_breakpoints
        /\ UserTable' = DOMAIN m_breakpoints \union {a}
    BY <1>2, <1>3 DEF UserTable
  <1>5. TemporariesAreListed'
    BY <1>1, <1>3, <1>4 DEF TInv, TemporariesAreListed
  <1>6. MemoryIsAccounted'
    BY <1>2, <1>4 DEF TInv, TTypeOK, TypeOK, MemoryIsAccounted, InTable, IsEnabled, AtRest
  <1>7. ASSUME NEW c \in Window(a)
        PROVE  m_breakpoints'[a].staging_data[c] = image[c]
    <2>1. mem[c] = Settled(c) /\ c \in Addr
      BY <1>2, <1>3, SettledApart
    <2>2. c \notin DOMAIN m_breakpoints
      <3>1. SUFFICES ASSUME c \in DOMAIN m_breakpoints PROVE FALSE
        OBVIOUS
      <3>2. c \in UserSites /\ c # a
        BY <1>2, <1>4, <3>1 DEF TInv, TemporariesAreListed
      <3>3. c \in Window(c)
        BY <3>2, TemporariesAssumption, WindowFacts
      <3>4. QED
        BY <1>7, <3>2, <3>3 DEF UserSpaced
    <2>3. QED
      BY <1>2, <1>4, <2>1, <2>2 DEF Settled
  <1>8. \A b \in DOMAIN m_breakpoints' : IsEnabled(b)'
    BY <1>2 DEF AtRest, IsEnabled, InTable
  <1>9. \A u \in UserTable' : \A c \in Window(u) :
            m_breakpoints'[u].staging_data[c] = image'[c]
    BY <1>2, <1>4, <1>7 DEF TInv, StagingIsSettled
  <1>10. StagingIsSettled'
    BY <1>3, <1>8, <1>9 DEF StagingIsSettled, Window
  <1>11. QED
    BY <1>5, <1>6, <1>10

(* No user's breakpoint lies in the word of another.                        *)
LEMMA UserApart ==
    ASSUME UserSpaced, TInv, NEW u \in UserTable, NEW c \in Window(u), c # u
    PROVE  c \notin UserTable
  <1>1. SUFFICES ASSUME c \in UserTable PROVE FALSE
    OBVIOUS
  <1>2. u \in UserSites /\ c \in UserSites
    BY <1>1 DEF TInv, TemporariesAreListed
  <1>3. c \in Window(c)
    BY <1>2, TemporariesAssumption, WindowFacts
  <1>4. QED
    BY <1>2, <1>3 DEF UserSpaced

(* step_over_breakpoint takes one breakpoint out ...                        *)
LEMMA LiftKeepsInv ==
    ASSUME UserSpaced, TInv, NEW a \in Sites, Lift(a)
    PROVE  /\ TemporariesAreListed' /\ MemoryIsAccounted' /\ StagingIsSettled'
           /\ \A b \in DOMAIN m_breakpoints' : b # a => IsEnabled(b)'
  <1>1. /\ StepOverDisable(a) /\ AtRest /\ a \in DOMAIN m_breakpoints
        /\ m_breakpoints[a] \in Breakpoint(a)
        /\ to_delete' = to_delete /\ image' = image
    BY DEF Lift, StepOverDisable, IsEnabled, InTable, TInv, TTypeOK, TypeOK
  <1>2. \A c \in Addr : mem'[c] =
            IF c \in Window(a) THEN m_breakpoints[a].staging_data[c] ELSE mem[c]
    BY <1>1, DisabledMemFacts DEF StepOverDisable, TInv, TTypeOK, TypeOK
  <1>3. /\ DOMAIN m_breakpoints' = DOMAIN m_breakpoints
        /\ \A b \in DOMAIN m_breakpoints :
              /\ m_breakpoints'[b].staging_data = m_breakpoints[b].staging_data
              /\ m_breakpoints'[b].enabled = (b # a /\ m_breakpoints[b].enabled)
    BY <1>1 DEF StepOverDisable, TInv, TTypeOK, TypeOK, Breakpoint
  <1>4. /\ Temporaries' = Temporaries
        /\ UserTable' = UserTable
        /\ \A c : Settled(c)' = Settled(c)
    BY <1>1, <1>3 DEF Temporaries, UserTable, Settled
  <1>5. \A b \in DOMAIN m_breakpoints : IsEnabled(b)' <=> b # a
    BY <1>1, <1>3 DEF AtRest, IsEnabled, InTable
  <1>6. a \in Window(a) /\ Window(a) \subseteq Addr
    BY WindowFacts
  <1>7. TemporariesAreListed'
    BY <1>1, <1>3, <1>4 DEF TInv, TemporariesAreListed
  <1>8. ASSUME NEW c \in Window(a)
        PROVE  /\ \/ m_breakpoints[a].staging_data[c] = image[c]
                  \/ m_breakpoints[a].staging_data[c] = Trap /\ c \in DOMAIN m_breakpoints
               /\ c \in UserTable /\ c # a => mem'[c] = Trap
    <2>1. CASE a \in Temporaries
      <3>1. m_breakpoints[a].staging_data[c] = Settled(c)
        BY <2>1 DEF TInv, StagingIsSettled
      <3>2. QED
        BY <1>2, <1>6, <3>1 DEF Settled, UserTable
    <2>2. CASE a \in UserTable
      <3>1. m_breakpoints[a].staging_data[c] = image[c]
        BY <2>2 DEF TInv, StagingIsSettled
      <3>2. c \notin UserTable \/ c = a
        BY <2>2, UserApart
      <3>3. QED
        BY <3>1, <3>2
    <2>3. QED
      BY <1>1, <2>1, <2>2 DEF UserTable
  <1>9. MemoryIsAccounted'
    <2>1. \A c \in Addr : \/ mem'[c] = image'[c]
                          \/ mem'[c] = Trap /\ c \in DOMAIN m_breakpoints
      BY <1>1, <1>2, <1>8 DEF TInv, MemoryIsAccounted, InTable
    <2>2. ASSUME NEW c \in UserTable, c # a
          PROVE  mem'[c] = Trap
      <3>1. c \in Addr /\ IsEnabled(c)
        BY <1>1, <2>2, BreakpointsAssumption
           DEF UserTable, AtRest, IsEnabled, InTable, TInv, TTypeOK, TypeOK
      <3>2. QED
        BY <1>2, <1>8, <2>2, <3>1 DEF TInv, MemoryIsAccounted
    <2>3. QED
      BY <1>3, <1>4, <1>5, <2>1, <2>2 DEF MemoryIsAccounted, InTable, UserTable
  <1>10. StagingIsSettled'
    <2>1. \A c \in Window(a) : mem'[c] = m_breakpoints'[a].staging_data[c]
      BY <1>1, <1>2, <1>3, <1>6
    <2>2. QED
      BY <1>1, <1>3, <1>4, <1>5, <2>1 DEF TInv, StagingIsSettled, UserTable,
         TemporariesAreListed, Window
  <1>11. QED
    BY <1>3, <1>5, <1>7, <1>9, <1>10

(* ... and saves and plants it again after the step: the word is unchanged, *)
(* so what is saved is what was saved before.                               *)
LEMMA ReplantKeepsInv ==
    ASSUME KeepsRest, TInv, NEW a \in Sites, Replant(a)
    PROVE  TemporariesAreListed' /\ MemoryIsAccounted' /\ StagingIsSettled' /\ AtRest'
  <1>1. /\ StepOverEnable(a) /\ a \in DOMAIN m_breakpoints /\ ~IsEnabled(a)
        /\ to_delete' = to_delete /\ image' = image
    BY DEF Replant, StepOverEnable, InTable
  <1>2. mem' = [mem EXCEPT ![a] = Trap]
    BY <1>1, EnabledMemFacts DEF StepOverEnable, TInv, TTypeOK, TypeOK
  <1>3. a \in Window(a) /\ Window(a) \subseteq Addr
    BY WindowFacts
  <1>4. /\ DOMAIN m_breakpoints' = DOMAIN m_breakpoints
        /\ \A b \in DOMAIN m_breakpoints \ {a} : m_breakpoints'[b] = m_breakpoints[b]
        /\ m_breakpoints'[a].enabled = TRUE
        /\ \A c \in Window(a) : m_breakpoints'[a].staging_data[c] = mem[c]
    BY <1>1 DEF StepOverEnable, With, Enabled, PeekWord
  <1>5. \A c \in Window(a) : mem[c] = m_breakpoints[a].staging_data[c]
    BY <1>1 DEF TInv, StagingIsSettled
  <1>6. \A b \in DOMAIN m_breakpoints : \A c \in Window(b) :
            m_breakpoints'[b].staging_data[c] = m_breakpoints[b].staging_data[c]
    BY <1>4, <1>5
  <1>7. \A b \in DOMAIN m_breakpoints : IsEnabled(b)'
    BY <1>1, <1>4 DEF TInv, PhaseIsRight, IsEnabled, InTable
  <1>8. /\ Temporaries' = Temporaries
        /\ UserTable' = UserTable
        /\ \A c : Settled(c)' = Settled(c)
    BY <1>1, <1>4 DEF Temporaries, UserTable, Settled
  <1>9. TemporariesAreListed'
    BY <1>1, <1>4, <1>8 DEF TInv, TemporariesAreListed
  <1>10. MemoryIsAccounted'
    <2>1. \A c \in Addr : mem'[c] = image'[c] \/ (mem'[c] = Trap /\ InTable(c)')
      BY <1>1, <1>2, <1>4 DEF TInv, TTypeOK, TypeOK, MemoryIsAccounted, InTable
    <2>2. ASSUME NEW c \in UserTable
          PROVE  mem'[c] = Trap
      <3>1. c \in Addr /\ (c # a => IsEnabled(c))
        BY <1>1, <2>2, BreakpointsAssumption
           DEF UserTable, TInv, TTypeOK, TypeOK, PhaseIsRight
      <3>2. QED
        BY <1>2, <2>2, <3>1 DEF TInv, TTypeOK, TypeOK, MemoryIsAccounted
    <2>3. QED
      BY <1>8, <2>1, <2>2 DEF MemoryIsAccounted
  <1>11. StagingIsSettled'
    <2>1. \A t \in Temporaries' : \A c \in Window(t) :
              m_breakpoints'[t].staging_data[c] = Settled(c)'
      BY <1>6, <1>8 DEF TInv, StagingIsSettled, TemporariesAreListed
    <2>2. \A u \in UserTable' : \A c \in Window(u) :
              m_breakpoints'[u].staging_data[c] = image'[c]
      BY <1>1, <1>6, <1>8 DEF TInv, StagingIsSettled, UserTable
    <2>3. QED
      BY <1>4, <1>7, <2>1, <2>2 DEF StagingIsSettled, Window
  <1>12. AtRest'
    BY <1>4, <1>7 DEF AtRest, IsEnabled
  <1>13. QED
    BY <1>9, <1>10, <1>11, <1>12

(* The loop over to_delete: removing the first temporary settles its word.  *)
LEMMA RemoveKeepsInv ==
    ASSUME TInv, RemoveTemporary
    PROVE  TemporariesAreListed' /\ MemoryIsAccounted' /\ StagingIsSettled' /\ AtRest'
  <1> DEFINE t == Head(to_delete)
  <1>1. /\ to_delete \in Seq(Sites)
        /\ \A i, j \in DOMAIN to_delete : to_delete[i] = to_delete[j] => i = j
        /\ Temporaries \subseteq DOMAIN m_breakpoints
        /\ to_delete # <<>> /\ to_delete' = Tail(to_delete)
        /\ RemoveBreakpoint(t) /\ AtRest /\ image' = image
    BY DEF TInv, TTypeOK, TemporariesAreListed, RemoveTemporary, RemoveBreakpoint
  <1>2. /\ t \in Temporaries
        /\ Temporaries' = Temporaries \ {t}
        /\ \A i, j \in DOMAIN to_delete' : to_delete'[i] = to_delete'[j] => i = j
    BY <1>1, TailFacts
  <1> HIDE DEF t
  <1>3. /\ t \in DOMAIN m_breakpoints /\ t \in Sites
        /\ m_breakpoints[t] \in Breakpoint(t) /\ IsEnabled(t)
    BY <1>1, <1>2 DEF TInv, TTypeOK, TypeOK, AtRest, IsEnabled, InTable
  <1>4. \A c \in Addr : mem'[c] =
            IF c \in Window(t) THEN m_breakpoints[t].staging_data[c] ELSE mem[c]
    BY <1>1, <1>3, DisabledMemFacts DEF RemoveBreakpoint, TInv, TTypeOK, TypeOK
  <1>5. /\ DOMAIN m_breakpoints' = DOMAIN m_breakpoints \ {t}
        /\ \A b \in DOMAIN m_breakpoints' : m_breakpoints'[b] = m_breakpoints[b]
    BY <1>1 DEF RemoveBreakpoint, Without
  <1>6. UserTable' = UserTable
    BY <1>2, <1>5 DEF UserTable
  <1>7. \A c : Settled(c)' = Settled(c)
    BY <1>1, <1>6 DEF Settled
  <1>8. t \in Window(t) /\ Window(t) \subseteq Addr
    BY <1>3, WindowFacts
  <1>9. \A c \in Window(t) : mem'[c] = Settled(c)
    BY <1>2, <1>4, <1>8 DEF TInv, StagingIsSettled
  <1>10. TemporariesAreListed'
    BY <1>1, <1>2, <1>5, <1>6 DEF TInv, TemporariesAreListed
  <1>11. MemoryIsAccounted'
    <2>1. \A c \in Window(t) : /\ mem'[c] = image[c] \/ (mem'[c] = Trap /\ c \in UserTable)
                               /\ c \in UserTable => mem'[c] = Trap
      BY <1>9 DEF Settled
    <2>2. t \notin UserTable /\ UserTable \subseteq DOMAIN m_breakpoints'
      BY <1>2, <1>6 DEF UserTable
    <2>3. \A c \in Addr : mem'[c] = image'[c] \/ (mem'[c] = Trap /\ InTable(c)')
      BY <1>1, <1>4, <1>5, <1>8, <2>1, <2>2 DEF TInv, MemoryIsAccounted, InTable
    <2>4. ASSUME NEW c \in UserTable
          PROVE  mem'[c] = Trap
      <3>1. c \in Addr /\ IsEnabled(c)
        BY <1>1, <2>4, BreakpointsAssumption
           DEF UserTable, AtRest, IsEnabled, InTable, TInv, TTypeOK, TypeOK
      <3>2. QED
        BY <1>4, <2>1, <2>4, <3>1 DEF TInv, MemoryIsAccounted
    <2>5. QED
      BY <1>6, <2>3, <2>4 DEF MemoryIsAccounted
  <1>12. AtRest'
    BY <1>1, <1>5 DEF AtRest
  <1>13. \A b \in DOMAIN m_breakpoints' : IsEnabled(b)'
    BY <1>12 DEF AtRest, IsEnabled, InTable
  <1>14. \A s \in Temporaries' : \A c \in Window(s) :
             m_breakpoints'[s].staging_data[c] = Settled(c)'
    BY <1>1, <1>2, <1>5, <1>7 DEF TInv, StagingIsSettled
  <1>15. \A u \in UserTable' : \A c \in Window(u) :
             m_breakpoints'[u].staging_data[c] = image'[c]
    BY <1>1, <1>5, <1>6 DEF TInv, StagingIsSettled, UserTable
  <1>16. StagingIsSettled'
    BY <1>13, <1>14, <1>15 DEF StagingIsSettled, Window
  <1>17. QED
    BY <1>10, <1>11, <1>12, <1>16

-------------------------------------------------------------------------------
(* Steps that touch neither memory nor the table.                           *)
LEMMA OnlyPhaseMoves ==
    ASSUME TInv, UNCHANGED <<mem, m_breakpoints, image, to_delete>>,
           phase = "lifted" => phase' = "lifted",
           phase' = "prompt" => to_delete = <<>>,
           phase' = "plant" => Temporaries \subseteq Rows
    PROVE  TemporariesAreListed' /\ PhaseIsRight' /\ MemoryIsAccounted' /\ StagingIsSettled'
  <1>1. UNCHANGED <<Temporaries, UserTable>> /\ \A c : Settled(c)' = Settled(c)
    BY DEF Temporaries, UserTable, Settled
  <1>2. PhaseIsRight'
    BY <1>1 DEF TInv, PhaseIsRight, AtRest, IsEnabled, InTable
  <1>3. TemporariesAreListed' /\ MemoryIsAccounted'
    BY <1>1 DEF TInv, TemporariesAreListed, MemoryIsAccounted, IsEnabled, InTable
  <1>4. StagingIsSettled'
    BY <1>1 DEF TInv, StagingIsSettled, IsEnabled, InTable, Window
  <1>5. QED
    BY <1>2, <1>3, <1>4

LEMMA TStep ==
    ASSUME KeepsRest, UserSpaced, ReturnsClear
    PROVE  TInv /\ [TNext]_tvars => TInv'
  <1>1. SUFFICES ASSUME TInv, [TNext]_tvars
                 PROVE  TemporariesAreListed' /\ PhaseIsRight'
                          /\ MemoryIsAccounted' /\ StagingIsSettled'
    BY TTypeStep DEF TInv
  <1>2. CASE UNCHANGED tvars
    BY <1>1, <1>2, OnlyPhaseMoves DEF tvars, TInv, PhaseIsRight
  <1>3. ASSUME BeginPlanting \/ BeginContinue \/ Continue \/ Stop \/ Return
        PROVE  TemporariesAreListed' /\ PhaseIsRight'
                 /\ MemoryIsAccounted' /\ StagingIsSettled'
    <2>1. UNCHANGED <<mem, m_breakpoints, image, to_delete>>
      BY <1>3 DEF BeginPlanting, BeginContinue, Continue, Stop, Return, table_vars
    <2>2. BeginPlanting => Temporaries \subseteq Rows
      BY <1>1 DEF BeginPlanting, TInv, PhaseIsRight, Temporaries
    <2>3. /\ phase # "lifted"
          /\ phase' = "prompt" => to_delete = <<>>
          /\ phase' = "plant" => Temporaries \subseteq Rows
      BY <1>3, <2>2 DEF BeginPlanting, BeginContinue, Continue, Stop, Return
    <2>4. QED
      BY <1>1, <2>1, <2>3, OnlyPhaseMoves
  <1>4. ASSUME NEW a \in UserSites, Break(a)
        PROVE  TemporariesAreListed' /\ PhaseIsRight'
                 /\ MemoryIsAccounted' /\ StagingIsSettled'
    <2>1. AtRest'
      BY <1>1, <1>4, TemporariesAssumption, SetNewFacts DEF Break
    <2>2. PhaseIsRight'
      BY <1>1, <1>4, <2>1 DEF Break, TInv, PhaseIsRight, AtRest, IsEnabled, InTable
    <2>3. QED
      BY <1>1, <1>4, <2>2, BreakKeepsInv
  <1>5. ASSUME NEW a \in Rows, PlantRow(a)
        PROVE  TemporariesAreListed' /\ PhaseIsRight'
                 /\ MemoryIsAccounted' /\ StagingIsSettled'
    <2>1. a \in Sites /\ SetNewBreakpoint(a) /\ to_delete' = Append(to_delete, a)
      BY <1>5, TemporariesAssumption DEF PlantRow
    <2>2. Window(a) \intersect Temporaries = {}
      <3>1. \A t \in Temporaries : t < a /\ t \in Int
        BY <1>1, <1>5, BreakpointsAssumption
           DEF PlantRow, TInv, TemporariesAreListed, TTypeOK, TypeOK
      <3>2. a \in Int
        BY <2>1, BreakpointsAssumption
      <3>3. QED
        BY <3>1, <3>2, BreakpointsAssumption DEF Window
    <2>3. AtRest' /\ Temporaries' = Temporaries \union {a}
      BY <1>1, <2>1, SetNewFacts, AppendFacts DEF TInv, TTypeOK
    <2>4. PhaseIsRight'
      BY <1>1, <1>5, <2>3 DEF PlantRow, TInv, PhaseIsRight, AtRest, IsEnabled, InTable
    <2>5. QED
      BY <1>1, <2>1, <2>2, <2>4, PlantKeepsInv
  <1>6. ASSUME NEW r \in Returns, PlantReturn(r)
        PROVE  TemporariesAreListed' /\ PhaseIsRight'
                 /\ MemoryIsAccounted' /\ StagingIsSettled'
    <2>1. CASE InTable(r)
      BY <1>1, <1>6, <2>1, OnlyPhaseMoves DEF PlantReturn, table_vars
    <2>2. CASE ~InTable(r)
      <3>1. r \in Sites /\ SetNewBreakpoint(r) /\ to_delete' = Append(to_delete, r)
        BY <1>6, <2>2, TemporariesAssumption DEF PlantReturn, SetNewBreakpoint
      <3>2. Window(r) \intersect Temporaries = {}
        <4>1. Temporaries \subseteq Rows /\ r \notin Temporaries
          BY <1>1, <1>6, <2>2 DEF PlantReturn, TInv, PhaseIsRight, TemporariesAreListed, InTable
        <4>2. QED
          BY <4>1 DEF ReturnsClear
      <3>3. AtRest'
        BY <1>1, <3>1, SetNewFacts
      <3>4. PhaseIsRight'
        BY <1>1, <1>6, <3>3 DEF PlantReturn, TInv, PhaseIsRight, AtRest, IsEnabled, InTable
      <3>5. QED
        BY <1>1, <3>1, <3>2, <3>4, PlantKeepsInv
    <2>3. QED
      BY <2>1, <2>2
  <1>7. ASSUME NEW a \in Sites, Lift(a)
        PROVE  TemporariesAreListed' /\ PhaseIsRight'
                 /\ MemoryIsAccounted' /\ StagingIsSettled'
    <2>1. \A b \in DOMAIN m_breakpoints' : b # a => IsEnabled(b)'
      BY <1>1, <1>7, LiftKeepsInv
    <2>2. PhaseIsRight'
      BY <1>7, <2>1 DEF Lift, PhaseIsRight
    <2>3. QED
      BY <1>1, <1>7, <2>2, LiftKeepsInv
  <1>8. ASSUME NEW a \in Sites, Replant(a)
        PROVE  TemporariesAreListed' /\ PhaseIsRight'
                 /\ MemoryIsAccounted' /\ StagingIsSettled'
    <2>1. AtRest'
      BY <1>1, <1>8, ReplantKeepsInv
    <2>2. PhaseIsRight'
      BY <1>8, <2>1 DEF Replant, PhaseIsRight, AtRest, IsEnabled, InTable
    <2>3. QED
      BY <1>1, <1>8, <2>2, ReplantKeepsInv
  <1>9. ASSUME RemoveTemporary
         PROVE  TemporariesAreListed' /\ PhaseIsRight'
                  /\ MemoryIsAccounted' /\ StagingIsSettled'
    <2>1. AtRest'
      BY <1>1, <1>9, RemoveKeepsInv
    <2>2. PhaseIsRight'
      BY <1>9, <2>1 DEF RemoveTemporary, PhaseIsRight, AtRest, IsEnabled, InTable
    <2>3. QED
      BY <1>1, <1>9, <2>2, RemoveKeepsInv
  <1>10. QED
    BY <1>1, <1>2, <1>3, <1>4, <1>5, <1>6, <1>7, <1>8, <1>9 DEF TNext

(* Whatever the rows and the user's breakpoints, the list of temporaries    *)
(* only ever names places a breakpoint can be, and the debugger is in one   *)
(* of its phases.                                                           *)
THEOREM TemporariesTypeCorrect == TSpec => []TTypeOK
  <1>1. TInit => TTypeOK
    BY TInitInv DEF TInv
  <1>2. QED
    BY <1>1, TTypeStep, PTL DEF TSpec

(* The inductive invariant, on x86-64, with the user's breakpoints a word   *)
(* apart and the return addresses clear of them: at every moment of         *)
(* step_over and step_out the list names every temporary of the table once, *)
(* and memory and every entry's staging_data differ from the program in no  *)
(* byte but those the table accounts for.                                   *)
THEOREM TemporariesAreAccounted ==
    ASSUME KeepsRest, UserSpaced, ReturnsClear
    PROVE  TSpec => []TInv
  BY TInitInv, TStep, PTL DEF TSpec

(* On x86-64, however close the rows are to each other and to the user's    *)
(* breakpoints, when step_over or step_out returns, every temporary is out  *)
(* of the table and memory holds the program and the user's traps, nothing  *)
(* else.                                                                    *)
THEOREM StepsLeaveNoTrace ==
    ASSUME KeepsRest, UserSpaced, ReturnsClear
    PROVE  TSpec => []LeavesNoTrace
  <1>1. TInv => LeavesNoTrace
    <2>1. SUFFICES ASSUME TInv, phase = "prompt"
                   PROVE  DOMAIN m_breakpoints \subseteq UserSites /\ TrapsAreExact
      BY DEF LeavesNoTrace
    <2>2. Temporaries = {} /\ AtRest
      BY <2>1 DEF TInv, PhaseIsRight, Temporaries
    <2>3. UserTable = DOMAIN m_breakpoints
      BY <2>2 DEF UserTable
    <2>4. \A c \in Addr : mem[c] = Settled(c)
      BY <2>1, <2>2, SettledApart
    <2>5. TrapsAreExact
      BY <2>2, <2>3, <2>4 DEF TrapsAreExact, Settled, AtRest, IsEnabled, InTable
    <2>6. QED
      BY <2>1, <2>3, <2>5 DEF TInv, TemporariesAreListed
  <1>2. QED
    BY <1>1, TInitInv, TStep, PTL DEF TSpec

(* On x86-64, where all the addresses are a word apart the temporaries also *)
(* do what they are for: while the debuggee runs, every row, the return     *)
(* address and every user's breakpoint holds its trap.                      *)
THEOREM SpacedStepsAreArmed ==
    ASSUME KeepsRest, Spaced
    PROVE  TSpec => []ArmedWhileRunning
  <1>1. UserSpaced
    BY TemporariesAssumption DEF Spaced, UserSpaced
  <1>2. ReturnsClear
    BY TemporariesAssumption, WindowFacts DEF Spaced, ReturnsClear
  <1>3. TInv /\ IInv => ArmedWhileRunning
    BY BreakpointsAssumption DEF TInv, PhaseIsRight, IInv, TypeOK, TrapsAreExact,
       ArmedWhileRunning, AtRest, IsEnabled, InTable
  <1>4. TInit => IInv
    BY ExactInit DEF TInit
  <1>5. TInv /\ IInv /\ [TNext]_tvars => IInv'
    BY TStepIsCareful, ExactStep DEF TInv
  <1>6. TInv /\ [TNext]_tvars => TInv'
    BY <1>1, <1>2, TStep
  <1>7. QED
    BY <1>3, <1>4, <1>5, <1>6, TInitInv, PTL DEF TSpec
===============================================================================

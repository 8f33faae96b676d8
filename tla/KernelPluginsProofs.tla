------------------------- MODULE KernelPluginsProofs -------------------------
(***************************************************************************)
(* KernelPlugins for any set of plugin names and libraries: types, what    *)
(* stays mapped, and what the server's list holds.                         *)
(***************************************************************************)
EXTENDS KernelPlugins, TLAPS

\* The symbols of a name are resolved only while it is not in the dictionary,
\* and contexts are cleared only by calls that count as unloading.
CallInv ==
    /\ loading # None => loading \notin loaded
    /\ clearing # {} => unloaded

Used(lib) ==
    \/ \E c \in loaded : LibOf[c] = lib
    \/ \E a \in Addresses : object[a] # None /\ ClassOf(a) = lib
    \/ lib \in brokers

\* A library in use has a reference of its own besides the one a load under
\* way may have to give back.
MappedInv ==
    /\ loading # None => refs[LibOf[loading]] >= 1
    /\ \A lib \in Libs : Used(lib) =>
          refs[lib] >= (IF loading # None /\ LibOf[loading] = lib THEN 2 ELSE 1)

-----------------------------------------------------------------------------
\* clear_context leaves objects where they are or deletes them.
LEMMA ClearType ==
    ASSUME TypeOK, NEW lib \in Libs, ClearContext(lib)
    PROVE  /\ object' \in [Addresses -> Configs \union {None}] /\ wild' \in BOOLEAN
           /\ \A a \in Addresses : object'[a] # None => object'[a] = object[a]
           /\ ~wild' => /\ ~wild
                        /\ \A a \in Entries : object'[a] # None => ClassOf(a) # lib
<1>1. CASE Meets(lib)
  BY <1>1 DEF TypeOK, ClearContext
<1>2. CASE ~Meets(lib)
  BY <1>2 DEF TypeOK, ClearContext, Entries
<1> QED BY <1>1, <1>2

LEMMA TypeStep == TypeOK /\ MappedInv /\ [Next]_vars => TypeOK'
<1> SUFFICES ASSUME TypeOK, MappedInv, [Next]_vars PROVE TypeOK'
  OBVIOUS
<1> USE KernelAssumption
<1>1. CASE Instance
  BY <1>1 DEF Instance, TypeOK, Idle
<1>2. CASE DisposeInstance
  <2>1. duplexers' \in Seq(Addresses) /\ loaded' \in SUBSET Configs
    BY <1>2 DEF DisposeInstance
  <2> QED BY <2>1, <1>2 DEF DisposeInstance, TypeOK
<1>3. CASE LoadFails
  BY <1>3 DEF LoadFails, TypeOK, Idle, MappedInv
<1>4. CASE RegisterFails
  BY <1>4 DEF RegisterFails, TypeOK, Idle
<1>5. CASE DestroyContexts
  BY <1>5 DEF DestroyContexts, TypeOK, Idle
<1>6. CASE OpenBroker
  <2>1. brokers' \in SUBSET Libs /\ wild' \in BOOLEAN
    <3>1. CASE duplexers = <<>>
      BY <3>1, <1>6 DEF OpenBroker, TypeOK
    <3>2. CASE duplexers # <<>> /\ object[Head(duplexers)] = None
      BY <3>2, <1>6 DEF OpenBroker, TypeOK
    <3>3. CASE duplexers # <<>> /\ object[Head(duplexers)] # None
      <4>1. Head(duplexers) \in Addresses
        BY <3>3 DEF TypeOK
      <4>2. ClassOf(Head(duplexers)) \in Libs
        BY <3>3, <4>1 DEF TypeOK, ClassOf
      <4> QED BY <3>3, <4>2, <1>6 DEF OpenBroker, TypeOK
    <3> QED BY <3>1, <3>2, <3>3
  <2> QED BY <2>1, <1>6 DEF OpenBroker, TypeOK
<1>7. ASSUME NEW c \in Configs, LoadBegin(c)
      PROVE  TypeOK'
  BY <1>7 DEF LoadBegin, TypeOK, Idle
<1>8. ASSUME NEW c \in Configs, UnloadPlugin(c)
      PROVE  TypeOK'
  BY <1>8, ClearType, LibOf[c] \in Libs DEF UnloadPlugin, TypeOK, Idle
<1>9. ASSUME NEW c \in Configs, DestroyNext(c)
      PROVE  TypeOK'
  BY <1>9, ClearType, LibOf[c] \in Libs DEF DestroyNext, TypeOK, Idle
<1>10. ASSUME NEW a \in Addresses, LoadPlugin(a)
      PROVE  TypeOK'
  BY <1>10 DEF LoadPlugin, TypeOK, Idle, Entries
<1>11. ASSUME NEW lib \in Libs, DropBroker(lib)
      PROVE  TypeOK'
  BY <1>11 DEF DropBroker, TypeOK, Idle
<1>12. CASE UNCHANGED vars
  BY <1>12 DEF vars, TypeOK, Idle
<1>13. QED
  BY <1>1, <1>2, <1>3, <1>4, <1>5, <1>6, <1>7, <1>8, <1>9, <1>10, <1>11, <1>12 DEF Next

LEMMA CallStep == TypeOK /\ CallInv /\ [Next]_vars => CallInv'
<1> SUFFICES ASSUME TypeOK, CallInv, [Next]_vars PROVE CallInv'
  OBVIOUS
<1> USE KernelAssumption
<1>1. CASE Instance
  BY <1>1 DEF Instance, TypeOK, CallInv, Idle
<1>2. CASE DisposeInstance
  BY <1>2 DEF DisposeInstance, TypeOK, CallInv, Idle
<1>3. CASE LoadFails
  BY <1>3 DEF LoadFails, TypeOK, CallInv, Idle
<1>4. CASE RegisterFails
  BY <1>4 DEF RegisterFails, TypeOK, CallInv, Idle
<1>5. CASE DestroyContexts
  BY <1>5 DEF DestroyContexts, TypeOK, CallInv, Idle
<1>6. CASE OpenBroker
  BY <1>6 DEF OpenBroker, TypeOK, CallInv, Idle
<1>7. ASSUME NEW c \in Configs, LoadBegin(c)
      PROVE  CallInv'
  BY <1>7 DEF LoadBegin, TypeOK, CallInv, Idle
<1>8. ASSUME NEW c \in Configs, UnloadPlugin(c)
      PROVE  CallInv'
  BY <1>8 DEF UnloadPlugin, TypeOK, CallInv, Idle
<1>9. ASSUME NEW c \in Configs, DestroyNext(c)
      PROVE  CallInv'
  BY <1>9 DEF DestroyNext, TypeOK, CallInv, Idle
<1>10. ASSUME NEW a \in Addresses, LoadPlugin(a)
      PROVE  CallInv'
  BY <1>10 DEF LoadPlugin, TypeOK, CallInv, Idle
<1>11. ASSUME NEW lib \in Libs, DropBroker(lib)
      PROVE  CallInv'
  BY <1>11 DEF DropBroker, TypeOK, CallInv, Idle
<1>12. CASE UNCHANGED vars
  BY <1>12 DEF vars, TypeOK, CallInv, Idle
<1>13. QED
  BY <1>1, <1>2, <1>3, <1>4, <1>5, <1>6, <1>7, <1>8, <1>9, <1>10, <1>11, <1>12 DEF Next

LEMMA MappedStep == TypeOK /\ MappedInv /\ [Next]_vars => MappedInv'
<1> SUFFICES ASSUME TypeOK, MappedInv, [Next]_vars PROVE MappedInv'
  OBVIOUS
<1> USE KernelAssumption
<1>1. CASE Instance
  BY <1>1 DEF Instance, TypeOK, MappedInv, Used, ClassOf, Idle
<1>2. CASE DisposeInstance
  BY <1>2 DEF DisposeInstance, TypeOK, MappedInv, Used, ClassOf, Idle
<1>3. CASE LoadFails
  BY <1>3 DEF LoadFails, TypeOK, MappedInv, Used, ClassOf, Idle
<1>4. CASE RegisterFails
  BY <1>4 DEF RegisterFails, TypeOK, MappedInv, Used, ClassOf, Idle
<1>5. CASE DestroyContexts
  BY <1>5 DEF DestroyContexts, TypeOK, MappedInv, Used, ClassOf, Idle
<1>6. CASE OpenBroker
  BY <1>6 DEF OpenBroker, TypeOK, MappedInv, Used, ClassOf, Idle
<1>7. ASSUME NEW c \in Configs, LoadBegin(c)
      PROVE  MappedInv'
  BY <1>7 DEF LoadBegin, TypeOK, MappedInv, Used, ClassOf, Idle
<1>8. ASSUME NEW c \in Configs, UnloadPlugin(c)
      PROVE  MappedInv'
  BY <1>8, ClearType, LibOf[c] \in Libs DEF UnloadPlugin, TypeOK, MappedInv, Used, ClassOf, Idle
<1>9. ASSUME NEW c \in Configs, DestroyNext(c)
      PROVE  MappedInv'
  BY <1>9, ClearType, LibOf[c] \in Libs DEF DestroyNext, TypeOK, MappedInv, Used, ClassOf, Idle
<1>10. ASSUME NEW a \in Addresses, LoadPlugin(a)
      PROVE  MappedInv'
  BY <1>10 DEF LoadPlugin, TypeOK, MappedInv, Used, ClassOf, Idle
<1>11. ASSUME NEW lib \in Libs, DropBroker(lib)
      PROVE  MappedInv'
  BY <1>11 DEF DropBroker, TypeOK, MappedInv, Used, ClassOf, Idle
<1>12. CASE UNCHANGED vars
  BY <1>12 DEF vars, TypeOK, MappedInv, Used, ClassOf, Idle
<1>13. QED
  BY <1>1, <1>2, <1>3, <1>4, <1>5, <1>6, <1>7, <1>8, <1>9, <1>10, <1>11, <1>12 DEF Next

LEMMA LiveStep == TypeOK /\ LiveOnlyLoaded /\ [Next]_vars => LiveOnlyLoaded'
<1> SUFFICES ASSUME TypeOK, LiveOnlyLoaded, [Next]_vars PROVE LiveOnlyLoaded'
  OBVIOUS
<1> USE KernelAssumption
<1>1. CASE Instance
  BY <1>1 DEF Instance, TypeOK, LiveOnlyLoaded, ClassOf, Entries, Idle
<1>2. CASE DisposeInstance
  BY <1>2 DEF DisposeInstance, TypeOK, LiveOnlyLoaded, ClassOf, Entries, Idle
<1>3. CASE LoadFails
  BY <1>3 DEF LoadFails, TypeOK, LiveOnlyLoaded, ClassOf, Entries, Idle
<1>4. CASE RegisterFails
  BY <1>4 DEF RegisterFails, TypeOK, LiveOnlyLoaded, ClassOf, Entries, Idle
<1>5. CASE DestroyContexts
  BY <1>5 DEF DestroyContexts, TypeOK, LiveOnlyLoaded, ClassOf, Entries, Idle
<1>6. CASE OpenBroker
  BY <1>6 DEF OpenBroker, TypeOK, LiveOnlyLoaded, ClassOf, Entries, Idle
<1>7. ASSUME NEW c \in Configs, LoadBegin(c)
      PROVE  LiveOnlyLoaded'
  <2>1. UNCHANGED <<loaded, duplexers, object, wild>>
    BY <1>7 DEF LoadBegin
  <2> QED BY <2>1 DEF LiveOnlyLoaded, ClassOf, Entries
<1>8. ASSUME NEW c \in Configs, UnloadPlugin(c)
      PROVE  LiveOnlyLoaded'
  BY <1>8, ClearType, LibOf[c] \in Libs DEF UnloadPlugin, TypeOK, LiveOnlyLoaded, ClassOf, Entries, Idle
<1>9. ASSUME NEW c \in Configs, DestroyNext(c)
      PROVE  LiveOnlyLoaded'
  BY <1>9, ClearType, LibOf[c] \in Libs DEF DestroyNext, TypeOK, LiveOnlyLoaded, ClassOf, Entries, Idle
<1>10. ASSUME NEW a \in Addresses, LoadPlugin(a)
      PROVE  LiveOnlyLoaded'
  BY <1>10 DEF LoadPlugin, TypeOK, LiveOnlyLoaded, ClassOf, Entries, Idle
<1>11. ASSUME NEW lib \in Libs, DropBroker(lib)
      PROVE  LiveOnlyLoaded'
  BY <1>11 DEF DropBroker, TypeOK, LiveOnlyLoaded, ClassOf, Entries, Idle
<1>12. CASE UNCHANGED vars
  BY <1>12 DEF vars, TypeOK, LiveOnlyLoaded, ClassOf, Entries, Idle
<1>13. QED
  BY <1>1, <1>2, <1>3, <1>4, <1>5, <1>6, <1>7, <1>8, <1>9, <1>10, <1>11, <1>12 DEF Next

LEMMA IntactStep ==
    TypeOK /\ CallInv /\ IntactUntilUnload /\ [Next]_vars => IntactUntilUnload'
<1> SUFFICES ASSUME TypeOK, CallInv, IntactUntilUnload, [Next]_vars PROVE IntactUntilUnload'
  OBVIOUS
<1> USE KernelAssumption
<1>1. CASE Instance
  BY <1>1 DEF Instance, TypeOK, CallInv, IntactUntilUnload, Idle
<1>2. CASE DisposeInstance
  BY <1>2 DEF DisposeInstance, TypeOK, CallInv, IntactUntilUnload, Idle
<1>3. CASE LoadFails
  BY <1>3 DEF LoadFails, TypeOK, CallInv, IntactUntilUnload, Idle
<1>4. CASE RegisterFails
  BY <1>4 DEF RegisterFails, TypeOK, CallInv, IntactUntilUnload, Idle
<1>5. CASE DestroyContexts
  BY <1>5 DEF DestroyContexts, TypeOK, CallInv, IntactUntilUnload, Idle
<1>6. CASE OpenBroker
  BY <1>6 DEF OpenBroker, TypeOK, CallInv, IntactUntilUnload, Idle
<1>7. ASSUME NEW c \in Configs, LoadBegin(c)
      PROVE  IntactUntilUnload'
  BY <1>7 DEF LoadBegin, TypeOK, CallInv, IntactUntilUnload, Idle
<1>8. ASSUME NEW c \in Configs, UnloadPlugin(c)
      PROVE  IntactUntilUnload'
  BY <1>8 DEF UnloadPlugin, TypeOK, CallInv, IntactUntilUnload, Idle
<1>9. ASSUME NEW c \in Configs, DestroyNext(c)
      PROVE  IntactUntilUnload'
  BY <1>9 DEF DestroyNext, TypeOK, CallInv, IntactUntilUnload, Idle
<1>10. ASSUME NEW a \in Addresses, LoadPlugin(a)
      PROVE  IntactUntilUnload'
  BY <1>10 DEF LoadPlugin, TypeOK, CallInv, IntactUntilUnload, Idle
<1>11. ASSUME NEW lib \in Libs, DropBroker(lib)
      PROVE  IntactUntilUnload'
  BY <1>11 DEF DropBroker, TypeOK, CallInv, IntactUntilUnload, Idle
<1>12. CASE UNCHANGED vars
  BY <1>12 DEF vars, TypeOK, CallInv, IntactUntilUnload, Idle
<1>13. QED
  BY <1>1, <1>2, <1>3, <1>4, <1>5, <1>6, <1>7, <1>8, <1>9, <1>10, <1>11, <1>12 DEF Next

-----------------------------------------------------------------------------
KernelInv == TypeOK /\ CallInv /\ MappedInv /\ LiveOnlyLoaded /\ IntactUntilUnload

LEMMA KernelInvariant == Spec => []KernelInv
<1>1. Init => KernelInv
  <2> SUFFICES ASSUME Init PROVE KernelInv
    OBVIOUS
  <2>1. duplexers \in Seq(Addresses) /\ loaded \in SUBSET Configs /\ clearing \in SUBSET Configs
    BY DEF Init
  <2>2. TypeOK
    BY <2>1, KernelAssumption DEF Init, TypeOK
  <2>3. CallInv /\ MappedInv
    BY DEF Init, CallInv, MappedInv, Used
  <2>4. LiveOnlyLoaded /\ IntactUntilUnload
    BY DEF Init, LiveOnlyLoaded, IntactUntilUnload, Entries
  <2> QED BY <2>2, <2>3, <2>4 DEF KernelInv
<1>2. KernelInv /\ [Next]_vars => KernelInv'
  BY TypeStep, CallStep, MappedStep, LiveStep, IntactStep DEF KernelInv
<1> QED BY <1>1, <1>2, PTL DEF Spec

\* The variables keep their types; no library is given back more often than it
\* was taken.
THEOREM KernelTyped == Spec => []TypeOK
BY KernelInvariant, PTL DEF KernelInv

\* Code that a plugin, an object or a broker can still call is mapped.
THEOREM CodeStaysMapped == Spec => []CodeMapped
<1>1. KernelInv => CodeMapped
  <2> SUFFICES ASSUME KernelInv, NEW lib \in Libs, Used(lib) PROVE refs[lib] > 0
    BY DEF CodeMapped, Used
  <2>1. refs[lib] \in Nat
    BY DEF KernelInv, TypeOK
  <2> QED BY <2>1 DEF KernelInv, MappedInv
<1> QED BY <1>1, KernelInvariant, PTL

\* Unloading the last name of a library leaves none of its objects behind.
THEOREM UnloadLeavesNothing == Spec => []LiveOnlyLoaded
BY KernelInvariant, PTL DEF KernelInv

\* Until a context is cleared, the list holds one existing object for each
\* plugin that registered.
THEOREM ListIntact == Spec => []IntactUntilUnload
BY KernelInvariant, PTL DEF KernelInv
=============================================================================

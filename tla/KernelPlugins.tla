---------------------------- MODULE KernelPlugins ----------------------------
(***************************************************************************)
(* The kernel singleton (include/cci_daemon_kernel.h), its dictionary of   *)
(* loaded plugins, the publish/subscribe server's list of objects those    *)
(* plugins registered, and the shared libraries all their code is in.      *)
(* Several names may lead to one library (a link to the same file): dlopen *)
(* then counts references, and clear_context of the library deletes every  *)
(* object of its class, whichever name registered it.                      *)
(*                                                                         *)
(* The plugin modelled is ps_kafka_facade.  Its source calls the list      *)
(* consumers(), the header duplexers(): they are taken for the same list.  *)
(***************************************************************************)
EXTENDS Integers, Sequences

CONSTANTS
    Configs,            \* names plugins are loaded by
    Libs,               \* shared library files
    LibOf,              \* the file each name leads to
    Addresses,          \* addresses a plugin's object can be allocated at
    None,               \* no name, no object
    MaxLoads,           \* bound on the references to one library
    MaxList             \* bound on the length of the server's list

ASSUME KernelAssumption ==
    /\ LibOf \in [Configs -> Libs]
    /\ None \notin Configs
    /\ MaxLoads \in Nat /\ MaxList \in Nat

VARIABLES
    kernel,             \* is there an instance?
    loaded,             \* m_loaded_plugins
    loading,            \* the name load_plugin is resolving the symbols of
    clearing,           \* the names destroy_contexts has still to call
    duplexers,          \* the server's list of pointers
    object,             \* which name registered the object at each address
    refs,               \* references dlopen has given out, per library
    brokers,            \* libraries of the brokers clients hold
    wild,               \* was a deleted object used?
    unloaded            \* has this kernel had contexts cleared? (history)

vars == <<kernel, loaded, loading, clearing, duplexers, object, refs, brokers, wild, unloaded>>

Entries == {duplexers[i] : i \in 1 .. Len(duplexers)}
ClassOf(a) == LibOf[object[a]]

TypeOK ==
    /\ kernel \in BOOLEAN /\ wild \in BOOLEAN /\ unloaded \in BOOLEAN
    /\ loaded \in SUBSET Configs /\ clearing \in SUBSET Configs
    /\ loading \in Configs \union {None}
    /\ duplexers \in Seq(Addresses)
    /\ object \in [Addresses -> Configs \union {None}]
    /\ refs \in [Libs -> Nat]
    /\ brokers \in SUBSET Libs

Init ==
    /\ kernel = FALSE /\ loaded = {} /\ loading = None /\ clearing = {}
    /\ duplexers = <<>>
    /\ object = [a \in Addresses |-> None]
    /\ refs = [lib \in Libs |-> 0]
    /\ brokers = {} /\ wild = FALSE /\ unloaded = FALSE

\* No call of the kernel is under way, and nothing undefined has happened yet.
Idle == kernel /\ loading = None /\ clearing = {} /\ ~wild

-----------------------------------------------------------------------------
(* The kernel.                                                             *)

\* cci_daemon_kernel::instance
Instance ==
    /\ ~kernel /\ ~wild
    /\ kernel' = TRUE
    /\ UNCHANGED <<loaded, loading, clearing, duplexers, object, refs, brokers, wild, unloaded>>

\* cci_daemon_kernel::dispose_instance: dictionary and list go, the objects
\* the list points to stay.
DisposeInstance ==
    /\ Idle
    /\ kernel' = FALSE /\ loaded' = {} /\ duplexers' = <<>> /\ unloaded' = FALSE
    /\ UNCHANGED <<loading, clearing, object, refs, brokers, wild>>

\* A slip: the dictionary is not looked at.
LoadBeginAgain(c) ==
    /\ Idle
    /\ refs[LibOf[c]] < MaxLoads /\ Len(duplexers) < MaxList
    /\ refs' = [refs EXCEPT ![LibOf[c]] = @ + 1]
    /\ loading' = c
    /\ UNCHANGED <<kernel, loaded, clearing, duplexers, object, brokers, wild, unloaded>>

\* load_plugin of a name that is not in the dictionary: the plugin's
\* constructor has the library loaded.
LoadBegin(c) ==
    /\ Idle
    /\ c \notin loaded
    /\ refs[LibOf[c]] < MaxLoads /\ Len(duplexers) < MaxList
    /\ refs' = [refs EXCEPT ![LibOf[c]] = @ + 1]
    /\ loading' = c
    /\ UNCHANGED <<kernel, loaded, clearing, duplexers, object, brokers, wild, unloaded>>

\* A slip: the library is given back by the catch clause and by the caller.
LoadFailsTwice ==
    /\ loading # None
    /\ refs' = [refs EXCEPT ![LibOf[loading]] = @ - 2]
    /\ loading' = None
    /\ UNCHANGED <<kernel, loaded, clearing, duplexers, object, brokers, wild, unloaded>>

\* A function is missing: the library is given back, nothing is entered.
LoadFails ==
    /\ loading # None
    /\ refs' = [refs EXCEPT ![LibOf[loading]] = @ - 1]
    /\ loading' = None
    /\ UNCHANGED <<kernel, loaded, clearing, duplexers, object, brokers, wild, unloaded>>

\* A slip: the destructor of the plugin gives the library back, and the local
\* copy in load_plugin is destroyed when load_plugin returns.
LoadPluginCloses(a) ==
    /\ loading # None /\ object[a] = None
    /\ object' = [object EXCEPT ![a] = loading]
    /\ duplexers' = Append(duplexers, a)
    /\ loaded' = loaded \union {loading}
    /\ refs' = [refs EXCEPT ![LibOf[loading]] = @ - 1]
    /\ loading' = None
    /\ UNCHANGED <<kernel, clearing, brokers, wild, unloaded>>

\* The plugin is entered and registers: a new object, at any free address, at
\* the end of the list.
LoadPlugin(a) ==
    /\ loading # None /\ object[a] = None
    /\ object' = [object EXCEPT ![a] = loading]
    /\ duplexers' = Append(duplexers, a)
    /\ loaded' = loaded \union {loading}
    /\ loading' = None
    /\ UNCHANGED <<kernel, clearing, refs, brokers, wild, unloaded>>

\* The plugin is entered, and its allocation throws: it stays entered.
RegisterFails ==
    /\ loading # None
    /\ loaded' = loaded \union {loading}
    /\ loading' = None
    /\ UNCHANGED <<kernel, clearing, duplexers, object, refs, brokers, wild, unloaded>>

\* clear_context goes through the list with dynamic_cast.  It is undefined if
\* it meets an entry that is deleted: from the start, or by an equal entry
\* before it.
Meets(lib) ==
    \E i \in 1 .. Len(duplexers) :
        \/ object[duplexers[i]] = None
        \/ ClassOf(duplexers[i]) = lib /\ \E j \in 1 .. i - 1 : duplexers[j] = duplexers[i]

\* clear_context: every object of the library's class is deleted; the entries stay.
ClearContext(lib) ==
    IF Meets(lib)
    THEN wild' = TRUE /\ UNCHANGED object
    ELSE /\ object' = [a \in Addresses |->
                         IF a \in Entries /\ ClassOf(a) = lib THEN None ELSE object[a]]
         /\ UNCHANGED wild

\* A slip: the plugin is taken out of the dictionary, its context stays.
UnloadPluginKeeps(c) ==
    /\ Idle /\ c \in loaded
    /\ loaded' = loaded \ {c} /\ unloaded' = TRUE
    /\ UNCHANGED <<kernel, loading, clearing, duplexers, object, refs, brokers, wild>>

\* unload_plugin: the library is not given back.
UnloadPlugin(c) ==
    /\ Idle /\ c \in loaded
    /\ ClearContext(LibOf[c])
    /\ loaded' = loaded \ {c} /\ unloaded' = TRUE
    /\ UNCHANGED <<kernel, loading, clearing, duplexers, refs, brokers>>

\* destroy_contexts: clear_context of one plugin after the other; the
\* dictionary keeps them.
DestroyContexts ==
    /\ Idle /\ loaded # {}
    /\ clearing' = loaded /\ unloaded' = TRUE
    /\ UNCHANGED <<kernel, loaded, loading, duplexers, object, refs, brokers, wild>>

DestroyNext(c) ==
    /\ c \in clearing /\ ~wild
    /\ ClearContext(LibOf[c])
    /\ clearing' = clearing \ {c}
    /\ UNCHANGED <<kernel, loaded, loading, duplexers, refs, brokers, unloaded>>

-----------------------------------------------------------------------------
(* Clients of the publish/subscribe server.                                *)

\* publish_and_subscribe_server::open_broker asks the first object of the list,
\* which can always open one, and throws if there is none.
OpenBroker ==
    /\ Idle
    /\ IF duplexers = <<>> THEN UNCHANGED <<brokers, wild>>
       ELSE IF object[Head(duplexers)] = None THEN wild' = TRUE /\ UNCHANGED brokers
       ELSE brokers' = brokers \union {ClassOf(Head(duplexers))} /\ UNCHANGED wild
    /\ UNCHANGED <<kernel, loaded, loading, clearing, duplexers, object, refs, unloaded>>

\* The client drops its brokers of a library: a call into the library.
DropBroker(lib) ==
    /\ lib \in brokers /\ ~wild
    /\ brokers' = brokers \ {lib}
    /\ UNCHANGED <<kernel, loaded, loading, clearing, duplexers, object, refs, wild, unloaded>>

Next ==
    \/ Instance \/ DisposeInstance
    \/ \E c \in Configs : LoadBegin(c) \/ UnloadPlugin(c) \/ DestroyNext(c)
    \/ LoadFails \/ RegisterFails \/ DestroyContexts
    \/ \E a \in Addresses : LoadPlugin(a)
    \/ OpenBroker
    \/ \E lib \in Libs : DropBroker(lib)

Spec == Init /\ [][Next]_vars

-----------------------------------------------------------------------------
\* Code that can still be called is mapped: that of a plugin in the dictionary,
\* of a registered object, even one whose kernel is gone, and of a broker some
\* client holds, also after its plugin was unloaded and after a second name of
\* the same library failed to load.
CodeMapped ==
    \A lib \in Libs :
        \/ \E c \in loaded : LibOf[c] = lib
        \/ \E a \in Addresses : object[a] # None /\ ClassOf(a) = lib
        \/ lib \in brokers
        => refs[lib] > 0

\* What the server can reach belongs to a library that is still in the
\* dictionary: unloading the last name of a library leaves none of its objects.
LiveOnlyLoaded ==
    ~wild => \A a \in Entries : object[a] # None => \E c \in loaded : LibOf[c] = ClassOf(a)

\* As long as a kernel has not cleared a context, every entry of the list is an
\* object that exists, registered by a plugin of the dictionary, no two by the
\* same one: whatever loads failed or were repeated, nothing undefined happens.
IntactUntilUnload ==
    ~unloaded =>
        /\ ~wild
        /\ \A i \in 1 .. Len(duplexers) :
              /\ object[duplexers[i]] \in loaded
              /\ \A j \in 1 .. i - 1 : object[duplexers[j]] # object[duplexers[i]]
=============================================================================

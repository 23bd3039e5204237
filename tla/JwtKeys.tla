-------------------------------- MODULE JwtKeys --------------------------------
(***************************************************************************)
(* The key file that tokens are signed and verified with.  Every module    *)
(* that provides JsonWebTokenService has an instance of its own, and each  *)
(* one that finds no file when the process starts generates a key.         *)
(* onModuleInit does not wait for that.  A script that starts AppModule    *)
(* beside the server has its instances too.                                *)
(***************************************************************************)
EXTENDS FiniteSets, Naturals

CONSTANTS
    Instances,      \* of JsonWebTokenService
    Scripts,        \* those of them that scripts start, in processes of their own
    None,
    MaxGenerating   \* bound: those that generate a key at a time

ASSUME NoneIsNoInstance == None \notin Instances
ASSUME MaxGeneratingIsNat == MaxGenerating \in Nat
ASSUME ScriptsAreInstances == Scripts \subseteq Instances

VARIABLES
    file,           \* the key in the file: the instance that made it, or None
    stage,          \* per instance: "down", "generating" or "ready"
    kept            \* history: the key in the file when the server last stopped

keyVars == <<file, stage, kept>>

KeysTypeOK ==
    /\ file \in Instances \cup {None}
    /\ stage \in [Instances -> {"down", "generating", "ready"}]
    /\ kept \in Instances \cup {None}

\* A new deployment, or one with a file that the server wrote before.
KeysInit ==
    /\ file \in (Instances \ Scripts) \cup {None}
    /\ stage = [i \in Instances |-> "down"]
    /\ kept = file

\* A faulty variant: a key is generated at every start.
BootWithoutLooking(i) ==
    /\ stage[i] = "down"
    /\ stage' = [stage EXCEPT ![i] = "generating"]
    /\ UNCHANGED <<file, kept>>

\* onModuleInit.
Boot(i) ==
    /\ stage[i] = "down"
    /\ file = None => Cardinality({j \in Instances : stage[j] = "generating"}) < MaxGenerating
    /\ stage' = [stage EXCEPT ![i] = IF file = None THEN "generating" ELSE "ready"]
    /\ UNCHANGED <<file, kept>>

\* The end of generateKey: the file is written without another look at it.
WriteKey(i) ==
    /\ stage[i] = "generating"
    /\ stage' = [stage EXCEPT ![i] = "ready"]
    /\ file' = i
    /\ UNCHANGED kept

\* The server listens once every onModuleInit has returned.
Serving == \A i \in Instances \ Scripts : stage[i] # "down"

\* The processes of scripts that have come as far.
ScriptsStarted == Cardinality({i \in Scripts : stage[i] # "down"})

\* The server stops and starts again; the file stays, and a script goes on.
StopInstances ==
    /\ Serving
    /\ stage' = [i \in Instances |-> IF i \in Scripts THEN stage[i] ELSE "down"]
    /\ kept' = file
    /\ UNCHANGED file
===============================================================================

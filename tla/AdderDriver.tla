---------------------------- MODULE AdderDriver ----------------------------
(***************************************************************************)
(* adder_driver.c: adder_init and adder_exit, one call to the kernel a     *)
(* step, and what the two callbacks do to the registers.  The kernel runs  *)
(* callbacks of different programs side by side; driver_remove_file waits  *)
(* for those that run and lets no other begin.                             *)
(***************************************************************************)
EXTENDS HpsAdder

CONSTANTS Programs,       \* the programs that use the driver
          MaxLoads        \* times that the module is inserted

ASSUME DriverAssumption == MaxLoads \in Nat

VARIABLES module,         \* where adder_init or adder_exit is
          loads,          \* which insertion this is
          registered, file, region, adder_mem,    \* what the module holds
          in_callback     \* the programs that are in adder_read or adder_write

driver_vars == <<module, loads, registered, file, region, adder_mem>>

Resources == <<registered, file, region, adder_mem>>

ModuleSteps == {"absent", "register", "create_file", "request_region", "remap", "loaded",
                "undo_remap", "undo_region", "unregister_only", "remove_file", "unregister",
                "release_region", "unmap"}

DriverType ==
    /\ module \in ModuleSteps /\ loads \in Nat
    /\ {registered, file, region, adder_mem} \subseteq BOOLEAN
    /\ in_callback \subseteq Programs

DriverInit ==
    /\ module = "absent" /\ loads = 0
    /\ registered = FALSE /\ file = FALSE /\ region = FALSE /\ adder_mem = FALSE
    /\ in_callback = {}

Insert ==
    /\ module = "absent" /\ loads < MaxLoads
    /\ module' = "register" /\ loads' = loads + 1
    /\ UNCHANGED <<registered, file, region, adder_mem>>

DriverRegister ==
    /\ module = "register"
    /\ \/ registered' = TRUE /\ module' = "create_file"
       \/ UNCHANGED registered /\ module' = "absent"
    /\ UNCHANGED <<loads, file, region, adder_mem>>

DriverCreateFile ==
    /\ module = "create_file"
    /\ \/ file' = TRUE /\ module' = "request_region"
       \/ UNCHANGED file /\ module' = "unregister_only"
    /\ UNCHANGED <<loads, registered, region, adder_mem>>

RequestMemRegion ==
    /\ module = "request_region"
    /\ \/ region' = TRUE /\ module' = "remap"
       \/ UNCHANGED region /\ module' = "undo_region"
    /\ UNCHANGED <<loads, registered, file, adder_mem>>

Ioremap ==
    /\ module = "remap"
    /\ \/ adder_mem' = TRUE /\ module' = "loaded"
       \/ UNCHANGED adder_mem /\ module' = "undo_remap"
    /\ UNCHANGED <<loads, registered, file, region>>

\* Mutant: the mapping is taken away with the file still there.
RemoveMappingFirst ==
    /\ module = "loaded"
    /\ module' = "release_region"
    /\ UNCHANGED <<loads, Resources>>

\* rmmod; nothing of the module is in use but the file.
Remove ==
    /\ module = "loaded"
    /\ module' = "remove_file"
    /\ UNCHANGED <<loads, Resources>>

\* driver_remove_file, the first step of every way back.
RemoveFile ==
    /\ module \in {"undo_region", "undo_remap", "remove_file"}
    /\ in_callback = {}
    /\ file' = FALSE
    /\ module' = CASE module = "undo_region" -> "unregister_only"
                   [] module = "undo_remap"  -> "unregister"
                   [] module = "remove_file" -> "unregister"
    /\ UNCHANGED <<loads, registered, region, adder_mem>>

DriverUnregister ==
    /\ module \in {"unregister", "unregister_only"}
    /\ registered' = FALSE
    /\ module' = IF module = "unregister" THEN "release_region" ELSE "absent"
    /\ UNCHANGED <<loads, file, region, adder_mem>>

\* Mutant: the region is kept when the mapping failed.
KeepRegion ==
    /\ module = "release_region"
    /\ region' = ~adder_mem
    /\ module' = IF adder_mem THEN "unmap" ELSE "absent"
    /\ UNCHANGED <<loads, registered, file, adder_mem>>

ReleaseMemRegion ==
    /\ module = "release_region"
    /\ region' = FALSE
    /\ module' = IF adder_mem THEN "unmap" ELSE "absent"
    /\ UNCHANGED <<loads, registered, file, adder_mem>>

Iounmap ==
    /\ module = "unmap"
    /\ adder_mem' = FALSE
    /\ module' = "absent"
    /\ UNCHANGED <<loads, registered, file, region>>

ModuleNext ==
    \/ Insert \/ DriverRegister \/ DriverCreateFile \/ RequestMemRegion \/ Ioremap
    \/ Remove \/ RemoveFile \/ DriverUnregister \/ ReleaseMemRegion \/ Iounmap
=============================================================================

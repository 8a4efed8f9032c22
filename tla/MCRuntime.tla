------------------------------- MODULE MCRuntime -------------------------------
(***************************************************************************)
(* Model checking of RuntimeProvisioning: two runtimes; manifests that pin *)
(* either of them, one that is a dry run, one with a module the sidecar    *)
(* does not have, and one that cannot be deployed.                         *)
(***************************************************************************)
EXTENDS RuntimeProvisioning

MCValues == {1, 2}

RuntimeA == [f \in RuntimeFields |-> 1]
RuntimeB == [RuntimeA EXCEPT !["image"] = 2, !["revision"] = 2]

Pinning(pin) == [pin |-> pin, kind |-> "normal", defects |-> {}]

MCManifests == {Pinning(RuntimeA),
                Pinning(RuntimeB),
                [Pinning(RuntimeB) EXCEPT !.kind = "dry_run"],
                [Pinning(RuntimeB) EXCEPT !.defects = {"code.parser"}],
                [Pinning(RuntimeA) EXCEPT !.defects = {"runtime.launch_command"}]}
=============================================================================

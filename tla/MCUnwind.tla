------------------------------ MODULE MCUnwind ------------------------------
(***************************************************************************)
(* One thread nests two try statements; another one only pushes and pops.  *)
(***************************************************************************)
EXTENDS Unwind, TLC

MCDepth == "t1" :> 2 @@ "t2" :> 0
MCTypes == "t1" :> {"TestException", "DeviceException"} @@ "t2" :> {}
MCParent == "Throwable" :> NONE @@ "Exception" :> "Throwable" @@ "TestException" :> "Exception"
            @@ "DeviceException" :> "Exception"
MCClauses == { [catch |-> {"Exception"}, finally |-> FALSE], [catch |-> {"TestException"}, finally |-> TRUE] }
=============================================================================

---------------------------- MODULE MCKernelsCache ----------------------------
(* Two custom kernels of the same name, two generated kernels.               *)
EXTENDS KernelsCache, TLC
AllSources == {"custom1", "custom2", "conv", "pool"}
Names == "custom1" :> "add" @@ "custom2" :> "add" @@ "conv" :> "conv_1" @@ "pool" :> "pool_1"
=============================================================================

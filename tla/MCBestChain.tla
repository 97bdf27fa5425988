---------------------------- MODULE MCBestChain ----------------------------
(***************************************************************************)
(* Small trees of blocks for BestChain.                                    *)
(***************************************************************************)
EXTENDS BestChain, TLC

CONSTANTS g, a1, a2, b1, b2, b3, c2, d2

\* Two branches, of which the longer one is invalid from its second block on,
\* with a block above that.  c2 does not pass ContextualCheckBlock and the header
\* d2 is refused.
ForkParent == a1 :> g @@ a2 :> a1 @@ c2 :> a1
              @@ b1 :> g @@ b2 :> b1 @@ b3 :> b2 @@ d2 :> b1
ForkVerdict ==
    g :> "valid" @@ a1 :> "valid" @@ a2 :> "valid" @@ c2 :> "badContext"
    @@ b1 :> "valid" @@ b2 :> "badConnect" @@ b3 :> "valid" @@ d2 :> "badHeader"

\* Heights, and addresses in no particular order.
AllHeight  == g :> 0 @@ a1 :> 1 @@ a2 :> 2 @@ c2 :> 2
              @@ b1 :> 1 @@ b2 :> 2 @@ b3 :> 3 @@ d2 :> 2
AllAddress == g :> 5 @@ a1 :> 4 @@ a2 :> 1 @@ c2 :> 7
              @@ b1 :> 3 @@ b2 :> 2 @@ b3 :> 6 @@ d2 :> 9

Below(f) == [b \in Block |-> f[b]]
SomeParent  == [b \in Block \ {g} |-> ForkParent[b]]
SomeHeight  == Below(AllHeight)
SomeAddress == Below(AllAddress)
SomeVerdict == Below(ForkVerdict)

============================================================================

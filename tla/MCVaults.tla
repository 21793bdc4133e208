------------------------------ MODULE MCVaults ------------------------------
(* Three keys, in pages that grow, shrink and are empty.                   *)
EXTENDS Vaults

CONSTANTS k1, k2, k3

MCLayouts ==
    {<< <<k1, k2, k3>> >>, << <<k1>>, <<k2, k3>> >>, << <<k1, k2>>, <<k3>> >>,
     << <<k1>>, <<k2>>, <<k3>> >>, << <<k1>>, <<>>, <<k2, k3>> >>, << <<>> >>}

MCRetrySettings == {Unset, -1, 0, 1, 9}
=============================================================================

-------------------------------- MODULE MCCube --------------------------------
(***************************************************************************)
(* The arithmetic of Cube over every short sequence of small sizes, with a *)
(* largest integer small enough to be exceeded.  A behaviour chooses sizes *)
(* and a limit and computes their product once.                            *)
(***************************************************************************)
EXTENDS Cube

CONSTANTS MaxSize, MaxLength, Limit
\* Limits are int64 values of at least one (config.go:91 checks MAX_CELLS).
ASSUME SizesAssumption ==
    MaxSize \in Nat /\ MaxLength \in Nat /\ Limit \subseteq 1..MaxInt

VARIABLES sizes, limit, product

CubeInit ==
    /\ sizes \in UNION {[1..n -> 0..MaxSize] : n \in 0..MaxLength}
    /\ limit \in Limit
    /\ product = [error |-> "waiting", count |-> 0]

CubeNext ==
    /\ product.error = "waiting"
    /\ product' = CheckedProduct(sizes, limit)
    /\ UNCHANGED <<sizes, limit>>

CubeSpec == CubeInit /\ [][CubeNext]_<<sizes, limit, product>>

Limits == {1, 6, 12, MaxInt}
Exact == FoldLeft(LAMBDA p, s : p * s, 1, sizes)

\* CheckedProduct accepts exactly the cubes whose true size is within the
\* limit and the integer width, and returns that size; with a limit that
\* leaves room for one more factor it never reports an overflow, so that a
\* cube that is too large is always told so as a cell limit.
ProductIsExact ==
    product.error # "waiting" =>
        /\ (product.error = "none") <=>
              sizes # <<>> /\ 0 \notin ToSet(sizes) /\ Exact <= limit
        /\ product.error = "none" => product.count = Exact
        /\ limit * MaxSize <= MaxInt => product.error # "overflow"

\* Coordinates is the inverse of CellIndex on the cube and refuses every
\* other index.
CoordinatesInvertCellIndex ==
    product.error = "none" =>
        \A n \in -1..(product.count + 1) :
            LET coords == Coordinates(n, sizes, Strides(sizes)) IN
            IF n \in 0..(product.count - 1)
            THEN /\ \A i \in DOMAIN sizes : coords[i] \in 0..(sizes[i] - 1)
                 /\ CellIndex(coords, Strides(sizes)) = n
            ELSE coords = Outside
=============================================================================

SPECIFICATION Spec
CONSTANTS
    Names = {a, b, c}
    OnCd = {a, b}
INVARIANT StoredInOrder
PROPERTIES OnlyRequestVanishes LoadKeepsFirst Settles HidesOnlyOnRequest

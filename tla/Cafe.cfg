SPECIFICATION Spec
CONSTANTS
    Customer = {1, 2, 3}
    Baristas = {1, 2}
    Inputs <- AllInputs
INVARIANTS
    ServiceConsistent
    WastedBounds
PROPERTIES
    ShopCloses

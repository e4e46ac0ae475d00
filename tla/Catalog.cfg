SPECIFICATION Spec
CONSTANTS
    Names = {"a", "b"}
    ArgNames = {"x", "y"}
    Configs <- AllConfigs
    Catalog <- SmallCatalog
    MaxRows = {3}
INVARIANT FiltersReachTheirColumns
INVARIANT PinHoldsUnlessReplaced
INVARIANT ColumnsOfOneTable
INVARIANT SchemaIsComplete

CONSTANTS
    N = 4
    Label = {"document", "element", "text"}
    Document = "document"
    Elements = {"element"}
SPECIFICATION Spec
INVARIANTS
    PointersAgree
    WalksAgree
PROPERTY ForestSpec

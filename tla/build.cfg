\* Edits stand for options like --disable-sdram, too.
CONSTANTS
  Scripts = {"tfoil", "tfoil_ibert", "rimini_ibert", "vcu1525_aurora", "vcu1525_clkwiz",
             "vcu1525_kyokko", "sim"}
  Design <- MCDesign
  MaxVersion = 2
SPECIFICATION Spec
INVARIANTS IInv NetlistConsistent
PROPERTIES LoadsOwnBuild RebuildFitsProbes

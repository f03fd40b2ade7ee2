SPECIFICATION SdrSpec
CONSTANTS
    Names = {SDRpp, a, b, c}
    Bundled = SDRpp
    MaxKept = 2
SYMMETRY Symmetry
CONSTRAINT Apart
INVARIANTS CardsTruthful PresetComplete
PROPERTIES OthersKept ChoicesKept

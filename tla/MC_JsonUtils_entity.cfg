CONSTANTS
    Nul = Nul
    Null <- Nul
    NDimMax <- MCNDimMax
    Datas <- MCDatas
    Names = {"p", " "}
    Blank = {" "}
    Docs <- MCLeaves
    Entities <- MCEntities
    ValidTypes = {"int"}
SPECIFICATION SpecWithEdits
INVARIANTS
    DimsDeclared

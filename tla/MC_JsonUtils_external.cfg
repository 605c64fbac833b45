CONSTANTS
    Nul = Nul
    Null <- Nul
    NDimMax <- MCNDimMax
    Datas <- MCDatas
    Names = {"p", " "}
    Blank = {" "}
    Docs <- MCDocs
    Entities <- MCEntities
    ValidTypes = {"int"}
SPECIFICATION SpecWithEdits
INVARIANTS
    LoadSound

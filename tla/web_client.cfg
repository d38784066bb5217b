SPECIFICATION WebSpec
CONSTANTS
    Urls <- MCUrls
    Host <- MCHost
    Size <- MCSize
    Links <- MCLinks
    ConnIds = {1, 2, 3, 4, 5, 6}
    Settings <- MCSettings
    MaxRetries = 1
    Doc = "doc"
    Scripts = {"js"}
    Expected = {"doc", "img", "js", "late", "other", "pic"}
    MaxLoads = 2
INVARIANTS NeverAborts BodiesWhole RequestsConserved NeverStuck
PROPERTIES ImplementsPageLoad
CHECK_DEADLOCK FALSE

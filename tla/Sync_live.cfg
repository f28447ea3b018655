SPECIFICATION FairSpec
CONSTANTS Period = 2  Again = 1  Requests = {"setsync", "link", "logout", "login"}  MaxReq = 1  Faults = {"api", "open"}
PROPERTIES NetworkNoticed DownloadsGoOn

SPECIFICATION FairMembersSpec
CONSTANTS
    ann = ann
    bo = bo
    e1 = e1
    e2 = e2
    refresh = refresh
    script = script
    Names = {ann, bo}
    Events = {e1, e2}
    Refresh = refresh
    Script = script
    Nobody = Nobody
    MaxChanges = 1
    MaxFaults = 1
    MaxScripts = 1
INVARIANTS AttendeesOfOneCrawl
PROPERTIES AccountsSurvive ListBecomesTheGroup

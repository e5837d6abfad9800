CONSTANTS
    Given = {given}
    Unset = Unset
    Unfit = Unfit
    Shown = Shown
    IPs = {ip1, ip2}
    None = None
    SeqSaneMax = 2
    Word = 4
SPECIFICATION Spec
INVARIANTS SignedAsShown FloorIsPublished PlanIsStaged SeqInv
PROPERTIES PeersAccept

\* Two hosts with one folder and one file, one old session beside the panel's.
CONSTANTS
    Hosts = {h1, h2}
    Root = Root
    Folders = {f}
    Files = {x}
    Sockets = {s1, s2}
    MaxQueue = 2
    MaxLeft = 1
    None = None
SPECIFICATION Spec
SYMMETRY Renamings
INVARIANTS TypeOK ShownIsHere UploadsLand ListingCurrent NavigationKept BusyMeansWaiting

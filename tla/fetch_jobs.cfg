SPECIFICATION Spec
CONSTANTS
    Request = {file, inner, own, again, other, form, disk, get, post}
    Local = {own, again, other, form, disk, post}
    File = {file, inner, disk}
    Files = {file}
    Inner = {inner, get}
    Alike = {own, again}
    Form = {form, post}
    Direct = {get, post}
    Second = {other}
    Guests = {}
    PagePolled = {file, inner, own, again, other, form}
    Poller = {p1}
    MaxStarted = 3
    Settings = {"required"}
    Anon = Anon
    None = None
    Blank = Blank
    u1 = u1
    u2 = u2
    UserOf <- MCUserOf
    PathOf <- MCPathOf
    FilePath <- MCFilePath
SYMMETRY Symmetry
INVARIANTS TypeOK ServedScanned OwnRendering
PROPERTIES GoneStaysGone ResultKept NotOlderThanForm
CHECK_DEADLOCK FALSE

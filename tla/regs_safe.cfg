SPECIFICATION Spec
CONSTANTS
    Idcodes = {"MC12", "MC12r1"}
    Gprs = {"gp", "fp"}
    Fprs = {}
    Others = {"lo"}
    Addrs = {"cram", "ram"}
    Words = {"cram", "ram"}
    Pcs = {p1}
    DbgWrites <- SafeWrites
    DbgAddrs <- SafeAddrs
INVARIANTS TypeOK RunsWithoutDebugBit GpIsBase
PROPERTIES Transparent ImplementsRunControl

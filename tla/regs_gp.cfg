SPECIFICATION Spec
CONSTANTS
    Idcodes = {"MC12"}
    Gprs = {"gp", "fp"}
    Fprs = {"f0"}
    Others = {"lo"}
    Addrs = {"cram", "ram"}
    Words = {"cram", "ram"}
    Pcs = {p1}
    DbgWrites <- GpWrites
    DbgAddrs <- NoAddrs
INVARIANTS GpIsBase

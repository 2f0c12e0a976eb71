SPECIFICATION RouterSpec
CONSTANTS
  Requests = {q1, q2}
  Sids = {s1}
  Groups = {ga}
  Facts = {fx}
  Files = {fa}
  adm = adm
  p1 = p1
  p2 = p2
  fa = fa
  ga = ga
  fx = fx
  Nodes <- MenuNodes
  Above <- MenuAbove
  Children <- MenuChildren
  Order <- MenuOrder
  File <- MenuFile
  Fact <- MenuFact
  Group <- MenuGroup
  Guarded = {adm}
  FirstChild = {adm}
  Alias <- MenuAlias
  Post = {p2}
  MaxVersion = 2
  NoFact = NoFact
  NoGroup = NoGroup
  NoCache = NoCache
  NoSession = NoSession
  Idle = Idle
  Daemons = {d1, d2}
  Pages = {pg}
  Slots = 2
  Patience = 1
  MaxTime = 4
  MaxDumps = 2
  Addrs = {a1, a2, a3}
  Garbage = garbage
  Ids = {i1, i2, i3}
  MaxAddrs = 3
  MaxLimit = 2
  Macs = {m1, m2}
  Ip4s = {ia, ib}
  Ip6s = {ic}
  HostNames = {n1, n2}
  NoAddr = NoAddr
  NoName = NoName
  MaxLines = 1
  MaxTags = 2
  ByteBits = 2
  Bytes = 2
  PkgNames = {k1, k2}
  Versioned = {k2}
  Libc = libc
  NoSuch = nosuch
  MaxDepends = 1
  MaxInstalled = 1
  Digits = {0, 1}
  Signs <- VersionSigns
  MaxLength = 3
INVARIANTS  SamplesHold   TemplateHolds ComputedExactly
CHECK_DEADLOCK FALSE
SYMMETRY RequestSymmetry

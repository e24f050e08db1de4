CONSTANTS
    u1 = u1  u2 = u2  u3 = u3  r1 = r1  r2 = r2
    Upstreams = {u1, u2}
    Reqs = {r1, r2}
    ReqIp <- MCReqIp
    IpHash <- MCIpHash
    Methods = {"conn", "random", "hash"}
    RetryMax = 2
SPECIFICATION Spec
INVARIANT StickyMember

CONSTANTS
    m1 = m1  m2 = m2  m3 = m3
    AnyMac = {m1, m2, m3}
    Null = Null
    Unlimited = Unlimited
    MaxSegments = 4
    FilterStrings <- MCFilterStrings
SPECIFICATION Spec
PROPERTY FilterImplementsAbstract

SPECIFICATION Spec
INVARIANT NeverLate
PROPERTIES OnPeriod

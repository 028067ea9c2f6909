SPECIFICATION Spec
INVARIANT AutoCreateInstalledWhenEnabled
PROPERTY AutoCreateEventuallyInstalled

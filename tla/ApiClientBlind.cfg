SPECIFICATION CallSpec
PROPERTIES
    NoBlindRetry

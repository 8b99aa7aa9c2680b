SPECIFICATION Spec
CONSTANTS
    SeqBits = 4
    MAX_SEQ_BIAS = 3
    BitmapBits = 5
    RepeatBits = 3
    Lifetime = 4
    MaxSent = 20
PROPERTIES RepeatRefused
